---- MODULE Spec2Model ----
(***************************************************************************)
(* Bungee reverse proxy: the supervisor (master.ts) with its rolling       *)
(* reload, and the per-worker request pipeline with failover and health    *)
(* state (worker.ts, health-checker.ts).                                   *)
(***************************************************************************)
EXTENDS Integers, Sequences, FiniteSets, TLC

(***************************************************************************)
(* Bounds of the model.                                                    *)
(***************************************************************************)
\* WORKER_COUNT is read from the environment; it ranges over 1..MaxWorkers.
MaxWorkers == 2
\* Number of change events of config.json.
MaxChanges == 2
\* Number of serving workers that die on their own.
MaxCrashes == 1

\* Every forkWorker call creates one worker incarnation: boot forks
\* WORKER_COUNT of them, a reload at most one per worker of its snapshot.
MaxForks == MaxWorkers * (1 + MaxChanges)

Forks == 1..MaxForks
Reloads == 1..MaxChanges

(***************************************************************************)
(* Config documents.  A document is what config.json holds after a change; *)
(* ver counts the changes, kind says which checks the document passes.     *)
(***************************************************************************)
\* unparseable: not JSON; noroutes: "routes" missing or not an array;
\* badroute: some route has an empty upstreams array, or some upstream a
\* non-positive weight or priority; ok: passes every check of loadConfig.
DocKinds == {"unparseable", "noroutes", "badroute", "ok"}

NoDoc == [ver |-> -1, kind |-> "none"]

\* Master.loadAndStart: JSON.parse only.
BootParses(doc) == doc.kind # "unparseable"

\* Master.gracefulReload: JSON.parse, then "routes" must be an array.
ReloadValidates(doc) == doc.kind \notin {"unparseable", "noroutes"}

\* loadConfig, run by every worker when it starts: routes is an array, every
\* route has a non-empty upstreams array, every weight and priority is a
\* positive number.  A document that fails makes the worker exit.
LoadConfigOk(doc) == doc.kind = "ok"

(***************************************************************************)
(* The worker: configuration, runtime health state and requests.           *)
(***************************************************************************)
\* Number of requests a worker handles at the same time.
MaxReqs == 2
Reqs == 1..MaxReqs

\* What a fetch to a target yields: an HTTP status, or a transport error
\* (the fetch promise rejects), written TransportError.
TransportError == 0
Ok == 200
ServerError == 500
NotFound == 404
ServiceUnavailable == 503
InternalError == 500
Outcomes == {TransportError, Ok, ServerError}

Upstream(t, p, w) == [target |-> t, priority |-> p, weight |-> w]

Route(path, failover, healthCheck, codes, ups) ==
    [path |-> path,
     failover |-> [enabled |-> failover, retryableStatusCodes |-> codes],
     healthCheck |-> [enabled |-> healthCheck],
     upstreams |-> ups]

\* Two routes; the failover route lists a priority-2 upstream between two
\* priority-1 upstreams of different weight.
ConfigA ==
    << Route(<<"a", "x">>, TRUE, TRUE, {ServerError},
             << Upstream("T1", 1, 100), Upstream("T2", 2, 100),
                Upstream("T3", 1, 50) >>),
       Route(<<"a">>, FALSE, FALSE, {ServerError},
             << Upstream("T1", 1, 100) >>) >>

\* Two failover routes that share target T1; the first lists T1 twice and
\* has no health check.
ConfigB ==
    << Route(<<"a", "x">>, TRUE, FALSE, {ServerError},
             << Upstream("T1", 1, 100), Upstream("T1", 1, 100),
                Upstream("T2", 2, 100) >>),
       Route(<<"a">>, TRUE, TRUE, {ServerError},
             << Upstream("T1", 1, 100) >>) >>

Configs == {ConfigA, ConfigB}
Targets == {"T1", "T2", "T3"}
ReqPaths == {<<"a", "x">>, <<"a">>, <<"c">>}

VARIABLES
    probing,      \* which handleRequest runs: TRUE, the one that dispatches
                  \* probes for unhealthy upstreams; FALSE, the one that does not
    routes,       \* config.routes
    upstatus,     \* runtimeState: status of every RuntimeUpstream, per route
    probes,       \* per upstream, the probe in flight for it: "none";
                  \* "posted", the message is with the health checker;
                  \* "recovered", the health checker has posted
                  \* {status: 'recovered', target} back
    failedSince,  \* history: per upstream with a probe in flight, the
                  \* runtime upstreams <<route, upstream>> with the probe's
                  \* target that are UNHEALTHY and became so after that
                  \* probe was posted
    reqs          \* the requests in handleRequest: pc, the matched route,
                  \* healthyUpstreams, attemptQueue with the index of the
                  \* current candidate, the upstreams fetched so far, the
                  \* outcome of the last fetch (-1 before the first), and the
                  \* response with who produced it (the upstream or the proxy)

wkVars == <<probing, routes, upstatus, probes, failedSince, reqs>>

(***************************************************************************)
(* The response transformer of one SSE stream (streaming.ts): state.       *)
(***************************************************************************)
VARIABLES
    sse           \* one createSseTransformerStream with its upstream stream:
                  \* frames, the upstream's frames; rules, the stream rules;
                  \* pos, the number of upstream bytes passed to transform;
                  \* buffer, hasStarted, isFinished, chunkCount, the closure
                  \* state; out, the events enqueued for the client; flushed,
                  \* whether flush has run

NoRules == [start |-> 0, chunk |-> 0, end |-> 0]

NoStream == [frames |-> <<>>, rules |-> NoRules, pos |-> 0, buffer |-> <<>>,
             hasStarted |-> FALSE, isFinished |-> FALSE, chunkCount |-> 0,
             out |-> <<>>, flushed |-> FALSE]

(***************************************************************************)
(* The rule engine of one proxyRequest (worker.ts): JSON values, rule      *)
(* sets, state.                                                            *)
(***************************************************************************)
VARIABLES
    rq            \* one proxyRequest (the fields of its path pipeline are
                  \* described with the pipeline) and its rules: part, the section the
                  \* rules are in ("headers" or "body"); route, upstream,
                  \* transformer, the rule sets of the three layers; orig,
                  \* the headers or the body of the request; pc; merged,
                  \* routeAndUpstreamRequestRules; final, finalRequestRules;
                  \* regrouped, the three layers merged from the right; fwd,
                  \* the headers or the body passed to fetch

(***************************************************************************)
(* Time, for the debounce of watchConfig (master.ts).                      *)
(***************************************************************************)
VARIABLES
    clock         \* now, the wall clock in ticks of TickMs; lastChange, the
                  \* time of the latest 'change' event of fs.watch; due, the
                  \* time the pending setTimeout of watchConfig is due at
                  \* (NoTimer when none is pending)

NoTimer == -1

NoClock == [now |-> 0, lastChange |-> NoTimer, due |-> NoTimer]

libVars == <<sse, rq, clock>>

\* The keys of rule maps, of bodies and of header sets.
Keys == {"k", "j"}

\* A JSON value: t is "none" for an absent key, "num", "str", "arr" for an
\* array of numbers a, "obj" for an object with the fields x and y (0 when
\* the field is absent), "throw" for a TypeError in place of a value.
\* The string with code 0 is '', the string with code 1 is an expression
\* whose evaluation throws ('{{headers.nonexistent.invalid}}').
NoFields == [x |-> 0, y |-> 0]

\* An array element or an object field is a number (1, 2, ...) or one of
\* these: null, '', [] and {}.  A field with value 0 is absent.
NullLeaf == -1

EmptyStringLeaf == -2

EmptyArrayLeaf == -3

EmptyObjectLeaf == -4

JValue(t, s, a, o) == [t |-> t, s |-> s, a |-> a, o |-> o]

JNone == JValue("none", 0, <<>>, NoFields)

JNum(n) == JValue("num", n, <<>>, NoFields)

JStr(code) == JValue("str", code, <<>>, NoFields)

JEmptyString == JStr(0)

JBadExpr == JStr(1)

JArr(a) == JValue("arr", 0, a, NoFields)

JObj(x, y) == JValue("obj", 0, <<>>, [x |-> x, y |-> y])

JTypeError == JValue("throw", 0, <<>>, NoFields)

EmptyMap == [key \in Keys |-> JNone]

\* One section (headers or body) of a ModificationRules object; threw
\* stands for the TypeError of a merge that produced no rule set.
EmptySection ==
    [add |-> EmptyMap, replace |-> EmptyMap, default |-> EmptyMap,
     remove |-> <<>>, threw |-> FALSE]

\* A path: the upstream's base path is prefixed or not; seg, the path of
\* the request ("v1"), of the route's pathRewrite ("v2") or of a
\* transformer's path replace ("m"); arg, the number the replace
\* expression put into the path (0 when none).
NoUrl == [base |-> FALSE, seg |-> "", arg |-> 0]

NoRequest ==
    [part |-> "body", route |-> EmptySection, upstream |-> EmptySection,
     transformer |-> EmptySection, orig |-> EmptyMap, pc |-> "idle",
     merged |-> EmptySection, final |-> EmptySection,
     regrouped |-> EmptySection, fwd |-> EmptyMap,
     respRules |-> EmptySection, respBody |-> EmptyMap,
     reqUrl |-> NoUrl, url |-> NoUrl, ctxUrl |-> NoUrl, rewrite |-> FALSE,
     xfs |-> <<>>, active |-> 0, base |-> FALSE, body |-> EmptyMap,
     evals |-> <<>>]

\* No stream is being transformed and no request is being rewritten.
LibIdle == sse = NoStream /\ rq = NoRequest /\ clock = NoClock

(***************************************************************************)
(* Supervisor state.                                                       *)
(***************************************************************************)
VARIABLES
    workerCount,    \* WORKER_COUNT
    file,           \* the document config.json holds now
    config,         \* Master.config
    isReloading,    \* Master.isReloading
    reloadTimeout,  \* Master.reloadTimeout: the debounce timer is pending
    workers,        \* Master.workers: the Map, as its values in insertion order
    nForks,         \* number of forkWorker calls so far
    wid,            \* WorkerInfo.workerId of each incarnation
    status,         \* WorkerInfo.status of each incarnation
    proc,           \* the worker thread itself: none, loading, serving, dead
    resolved,       \* the promise forkWorker returned: pending, true, false
    startTimer,     \* startupTimeout is armed
    shutTimer,      \* shutdownTimeout of gracefulShutdownWorker is armed
    shutdownSent,   \* {command: 'shutdown'} was posted to the worker
    cfg,            \* the document the worker loaded when it started
    bpc,            \* loadAndStart/startWorkers: load, forkwait, delay, done, exited
    bi,             \* startWorkers: loop index i
    bwait,          \* startWorkers: the incarnation whose fork it awaits
    nReloads,       \* number of gracefulReload calls that passed the entry check
    rpc,            \* gracefulReload: none, read, shutwait, forkwait, restorewait,
                    \* and how it ended: done, rejected (validation), aborted
    rcur,           \* gracefulReload: currentWorkers
    ri,             \* gracefulReload: loop index i (1-based)
    rj,             \* gracefulReload: restore loop index j (1-based)
    rwait,          \* gracefulReload: the incarnation it awaits
    rdoc,           \* gracefulReload: newConfig
    rready,         \* number of ready workers when currentWorkers was taken
    crashes         \* number of serving workers that died on their own

supVars == <<workerCount, file, config, isReloading, reloadTimeout, workers,
             nForks, wid, status, proc, resolved, startTimer, shutTimer,
             shutdownSent, cfg, bpc, bi, bwait, nReloads, rpc, rcur, ri, rj,
             rwait, rdoc, rready, crashes>>

\* The supervisor state as one record, so that a handler and the
\* continuations it resumes compose as functions.
SupState ==
    [workerCount |-> workerCount, file |-> file, config |-> config,
     isReloading |-> isReloading, reloadTimeout |-> reloadTimeout,
     workers |-> workers, nForks |-> nForks, wid |-> wid, status |-> status,
     proc |-> proc, resolved |-> resolved, startTimer |-> startTimer,
     shutTimer |-> shutTimer, shutdownSent |-> shutdownSent, cfg |-> cfg,
     bpc |-> bpc, bi |-> bi, bwait |-> bwait, nReloads |-> nReloads,
     rpc |-> rpc, rcur |-> rcur, ri |-> ri, rj |-> rj, rwait |-> rwait,
     rdoc |-> rdoc, rready |-> rready, crashes |-> crashes]

vars == <<supVars, wkVars, libVars>>

\* A supervisor step assigns every field of the supervisor state; what the
\* worker model holds is not the supervisor's to change.
SupAssign(s) ==
    /\ workerCount' = s.workerCount
    /\ file' = s.file
    /\ config' = s.config
    /\ isReloading' = s.isReloading
    /\ reloadTimeout' = s.reloadTimeout
    /\ workers' = s.workers
    /\ nForks' = s.nForks
    /\ wid' = s.wid
    /\ status' = s.status
    /\ proc' = s.proc
    /\ resolved' = s.resolved
    /\ startTimer' = s.startTimer
    /\ shutTimer' = s.shutTimer
    /\ shutdownSent' = s.shutdownSent
    /\ cfg' = s.cfg
    /\ bpc' = s.bpc
    /\ bi' = s.bi
    /\ bwait' = s.bwait
    /\ nReloads' = s.nReloads
    /\ rpc' = s.rpc
    /\ rcur' = s.rcur
    /\ ri' = s.ri
    /\ rj' = s.rj
    /\ rwait' = s.rwait
    /\ rdoc' = s.rdoc
    /\ rready' = s.rready
    /\ crashes' = s.crashes

SupSet(s) ==
    /\ UNCHANGED <<wkVars, libVars>>
    /\ SupAssign(s)

SupInit ==
    /\ workerCount \in 1..MaxWorkers
    /\ file \in [ver : {0}, kind : DocKinds]
    /\ config = NoDoc
    /\ isReloading = FALSE
    /\ reloadTimeout = FALSE
    /\ workers = <<>>
    /\ nForks = 0
    /\ wid = [k \in Forks |-> -1]
    /\ status = [k \in Forks |-> "none"]
    /\ proc = [k \in Forks |-> "none"]
    /\ resolved = [k \in Forks |-> "none"]
    /\ startTimer = [k \in Forks |-> FALSE]
    /\ shutTimer = [k \in Forks |-> FALSE]
    /\ shutdownSent = [k \in Forks |-> FALSE]
    /\ cfg = [k \in Forks |-> NoDoc]
    /\ bpc = "load"
    /\ bi = 0
    /\ bwait = 0
    /\ nReloads = 0
    /\ rpc = [r \in Reloads |-> "none"]
    /\ rcur = [r \in Reloads |-> <<>>]
    /\ ri = [r \in Reloads |-> 0]
    /\ rj = [r \in Reloads |-> 0]
    /\ rwait = [r \in Reloads |-> 0]
    /\ rdoc = [r \in Reloads |-> NoDoc]
    /\ rready = [r \in Reloads |-> 0]
    /\ crashes = 0

(***************************************************************************)
(* Master.workers, a Map keyed by workerId, kept as the sequence of its    *)
(* values (incarnations) in insertion order.                               *)
(***************************************************************************)
MapHas(s, id) == \E n \in 1..Len(s.workers) : s.wid[s.workers[n]] = id

\* Map.delete(id)
MapDelete(s, id) ==
    LET keep(k) == s.wid[k] # id
    IN  SelectSeq(s.workers, keep)

\* Map.set(id, k): an existing key keeps its place, a new key goes last.
MapSet(s, id, k) ==
    IF MapHas(s, id)
    THEN [n \in 1..Len(s.workers) |->
            IF s.wid[s.workers[n]] = id THEN k ELSE s.workers[n]]
    ELSE Append(s.workers, k)

\* The workers a caller would count as up: the supervisor holds them as
\* 'ready' and their thread is serving.
ReadyIn(s) == {k \in Forks : s.status[k] = "ready" /\ s.proc[k] = "serving"}

(***************************************************************************)
(* forkWorker(workerId), up to the point where it returns its promise.     *)
(* The new incarnation is s.nForks + 1.                                    *)
(***************************************************************************)
ForkWorker(s, id) ==
    LET k == s.nForks + 1
    IN  [s EXCEPT !.nForks = k,
                  !.wid[k] = id,
                  !.status[k] = "starting",
                  !.proc[k] = "loading",
                  !.resolved[k] = "pending",
                  !.startTimer[k] = TRUE,
                  !.workers = MapSet([s EXCEPT !.wid[k] = id], id, k)]

\* worker.terminate()
Terminate(s, k) == [s EXCEPT !.proc[k] = "dead"]

(***************************************************************************)
(* gracefulReload, one loop iteration from its head to its first await:    *)
(* gracefulShutdownWorker(currentWorkers[i]) returns at once for a stopped *)
(* worker and the replacement is forked; otherwise the worker is sent      *)
(* shutdown and the reload awaits its exit.  After the last iteration the  *)
(* config is swapped and the flag cleared.                                 *)
(***************************************************************************)
ReloadStep(s, r) ==
    LET i == s.ri[r]
    IN  IF i > Len(s.rcur[r])
        THEN [s EXCEPT !.config = s.rdoc[r],
                       !.isReloading = FALSE,
                       !.rpc[r] = "done"]
        ELSE LET old == s.rcur[r][i]
             IN  IF s.status[old] = "stopped"
                 THEN LET f == ForkWorker(s, s.wid[old])
                      IN  [f EXCEPT !.rpc[r] = "forkwait",
                                    !.rwait[r] = f.nForks]
                 ELSE [s EXCEPT !.status[old] = "shutting_down",
                                !.shutdownSent[old] = TRUE,
                                !.shutTimer[old] = TRUE,
                                !.rpc[r] = "shutwait",
                                !.rwait[r] = old]

(***************************************************************************)
(* gracefulReload, the restore loop after a failed replacement, from index *)
(* j: workers of the snapshot whose id is still in the Map are skipped,    *)
(* the first one whose id is missing is forked and awaited; at the end of  *)
(* the loop the flag is cleared and the reload returns without swapping    *)
(* the config.                                                             *)
(***************************************************************************)
ReloadRestore(s, r, j) ==
    LET missing == {n \in j..Len(s.rcur[r]) : ~MapHas(s, s.wid[s.rcur[r][n]])}
    IN  IF missing = {}
        THEN [s EXCEPT !.isReloading = FALSE, !.rpc[r] = "aborted"]
        ELSE LET n == CHOOSE m \in missing : \A o \in missing : m <= o
                 f == ForkWorker(s, s.wid[s.rcur[r][n]])
             IN  [f EXCEPT !.rpc[r] = "restorewait",
                           !.rj[r] = n,
                           !.rwait[r] = f.nForks]

\* gracefulReload after `await this.forkWorker(oldWorker.workerId)`.
ReloadAfterFork_IgnoresFailure(s, r, started) ==
    ReloadStep([s EXCEPT !.ri[r] = @ + 1], r)

ReloadAfterFork(s, r, started) ==
    IF started
    THEN ReloadStep([s EXCEPT !.ri[r] = @ + 1], r)
    ELSE ReloadRestore(s, r, s.ri[r] + 1)

\* startWorkers after `await this.forkWorker(i)`: the result is only
\* logged; a 100 ms delay follows unless this was the last worker.
BootAfterFork(s) ==
    IF s.bi < s.workerCount - 1
    THEN [s EXCEPT !.bpc = "delay"]
    ELSE [s EXCEPT !.bpc = "done"]

\* The continuation of whoever awaits the promise of incarnation k.
AfterFork(s, k, started) ==
    IF s.bpc = "forkwait" /\ s.bwait = k
    THEN BootAfterFork(s)
    ELSE IF \E r \in Reloads : s.rpc[r] = "forkwait" /\ s.rwait[r] = k
    THEN LET r == CHOOSE x \in Reloads : s.rpc[x] = "forkwait" /\ s.rwait[x] = k
         IN  ReloadAfterFork(s, r, started)
    ELSE IF \E r \in Reloads : s.rpc[r] = "restorewait" /\ s.rwait[r] = k
    THEN LET r == CHOOSE x \in Reloads : s.rpc[x] = "restorewait" /\ s.rwait[x] = k
         IN  ReloadRestore(s, r, s.rj[r] + 1)
    ELSE s

\* resolve(started) of forkWorker's promise: only the first call settles it.
Resolve(s, k, started) ==
    IF s.resolved[k] # "pending"
    THEN s
    ELSE AfterFork([s EXCEPT !.resolved[k] = IF started THEN "true" ELSE "false"],
                   k, started)

\* gracefulShutdownWorker after `await workerInfo.exitPromise`, and the
\* fork that follows it in gracefulReload.
AfterExit(s, k) ==
    IF \E r \in Reloads : s.rpc[r] = "shutwait" /\ s.rwait[r] = k
    THEN LET r == CHOOSE x \in Reloads : s.rpc[x] = "shutwait" /\ s.rwait[x] = k
             f == ForkWorker([s EXCEPT !.shutTimer[k] = FALSE], s.wid[k])
         IN  [f EXCEPT !.rpc[r] = "forkwait", !.rwait[r] = f.nForks]
    ELSE s

\* worker.on('exit')
OnExit(s, k) ==
    LET wasStarting == s.status[k] = "starting"
        a == [s EXCEPT !.startTimer[k] = FALSE,
                       !.workers = MapDelete(s, s.wid[k]),
                       !.status[k] = "stopped"]
        b == AfterExit(a, k)
    IN  IF wasStarting THEN Resolve(b, k, FALSE) ELSE b

\* worker.on('message') with status 'ready'
OnReady(s, k) ==
    Resolve([s EXCEPT !.startTimer[k] = FALSE, !.status[k] = "ready"], k, TRUE)

\* worker.on('message') with status 'error', and worker.on('error')
OnError(s, k) ==
    LET a == Terminate([s EXCEPT !.startTimer[k] = FALSE], k)
    IN  Resolve([a EXCEPT !.workers = MapDelete(a, a.wid[k])], k, FALSE)

\* the startupTimeout callback
OnStartupTimeout(s, k) ==
    LET a == Terminate([s EXCEPT !.startTimer[k] = FALSE], k)
    IN  Resolve([a EXCEPT !.workers = MapDelete(a, a.wid[k])], k, FALSE)

\* the shutdownTimeout callback
OnShutdownTimeout_NoTerminate(s, k) == [s EXCEPT !.shutTimer[k] = FALSE]

OnShutdownTimeout(s, k) == Terminate([s EXCEPT !.shutTimer[k] = FALSE], k)

\* gracefulReload from its entry check to `await readFile`.
GracefulReloadEnter_FlagNotSet(s) ==
    IF s.isReloading
    THEN s
    ELSE [s EXCEPT !.nReloads = @ + 1,
                   !.rpc[s.nReloads + 1] = "read"]

GracefulReloadEnter(s) ==
    IF s.isReloading
    THEN s
    ELSE [s EXCEPT !.isReloading = TRUE,
                   !.nReloads = @ + 1,
                   !.rpc[s.nReloads + 1] = "read"]

\* gracefulReload from the file read to its first await in the loop; a
\* document that does not validate takes the catch and finally blocks.
GracefulReloadRead(s, r) ==
    IF ~ReloadValidates(s.file)
    THEN [s EXCEPT !.isReloading = FALSE, !.rpc[r] = "rejected"]
    ELSE ReloadStep([s EXCEPT !.rdoc[r] = s.file,
                              !.rcur[r] = s.workers,
                              !.rready[r] = Cardinality(ReadyIn(s)),
                              !.ri[r] = 1], r)

(***************************************************************************)
(* Supervisor actions: one per event-loop task of master.ts, each with the *)
(* continuations it resumes.                                               *)
(***************************************************************************)
Running == bpc # "exited"

\* loadAndStart: read and parse config.json, then startWorkers forks
\* worker 0; a parse failure exits the process.
BootLoad ==
    /\ bpc = "load"
    /\ LET s == SupState
       IN  IF BootParses(file)
           THEN LET f == ForkWorker([s EXCEPT !.config = file], 0)
                IN  SupSet([f EXCEPT !.bpc = "forkwait", !.bi = 0,
                                     !.bwait = f.nForks])
           ELSE SupSet([s EXCEPT !.bpc = "exited"])

\* startWorkers: the 100 ms delay is over, fork the next worker.
BootNext ==
    /\ bpc = "delay"
    /\ LET f == ForkWorker(SupState, bi + 1)
       IN  SupSet([f EXCEPT !.bpc = "forkwait", !.bi = bi + 1,
                            !.bwait = f.nForks])

\* config.json is rewritten; the fs.watch callback (re)arms the debounce timer.
FileChanged(kind) ==
    [SupState EXCEPT !.file = [ver |-> file.ver + 1, kind |-> kind],
                     !.reloadTimeout = TRUE]

FileChange(kind) ==
    /\ Running
    /\ file.ver < MaxChanges
    /\ SupSet(FileChanged(kind))

\* The debounce timer fires: gracefulReload is called unless a reload is
\* in progress.
DebounceFired ==
    LET s == [SupState EXCEPT !.reloadTimeout = FALSE]
    IN  IF ~isReloading THEN GracefulReloadEnter(s) ELSE s

DebounceFire ==
    /\ Running
    /\ reloadTimeout
    /\ SupSet(DebounceFired)

\* gracefulReload resumes after readFile.
ReloadRead(r) ==
    /\ Running
    /\ rpc[r] = "read"
    /\ SupSet(GracefulReloadRead(SupState, r))

\* A starting worker loads config.json, starts its server and reports
\* ready; the supervisor handles the message.
WorkerReady(k) ==
    /\ Running
    /\ proc[k] = "loading"
    /\ LoadConfigOk(file)
    /\ SupSet(OnReady([SupState EXCEPT !.proc[k] = "serving",
                                       !.cfg[k] = file], k))

\* A starting worker finds config.json invalid: loadConfig exits the thread.
WorkerLoadFail(k) ==
    /\ Running
    /\ proc[k] = "loading"
    /\ ~LoadConfigOk(file)
    /\ SupSet([SupState EXCEPT !.proc[k] = "dead"])

\* A starting worker fails otherwise (its server cannot start) and reports
\* {status: 'error'} before it exits.
WorkerStartError(k) ==
    /\ Running
    /\ proc[k] = "loading"
    /\ SupSet(OnError(SupState, k))

\* A serving worker dies on its own, with or without an 'error' event.
WorkerCrash(k, viaError) ==
    /\ Running
    /\ proc[k] = "serving"
    /\ crashes < MaxCrashes
    /\ LET s == [SupState EXCEPT !.proc[k] = "dead", !.crashes = @ + 1]
       IN  IF viaError THEN SupSet(OnError(s, k)) ELSE SupSet(s)

\* The 30 s startup timer fires.
StartupTimeout(k) ==
    /\ Running
    /\ startTimer[k]
    /\ SupSet(OnStartupTimeout(SupState, k))

\* The 30 s shutdown timer fires.
ShutdownTimeout(k) ==
    /\ Running
    /\ shutTimer[k]
    /\ SupSet(OnShutdownTimeout(SupState, k))

\* A serving worker receives {command: 'shutdown'}: shutdownServer stops
\* the server and exits the thread.
WorkerShutdown(k) ==
    /\ Running
    /\ shutdownSent[k]
    /\ proc[k] = "serving"
    /\ SupSet([SupState EXCEPT !.proc[k] = "dead"])

\* The supervisor handles the exit event of a dead worker.
WorkerExit(k) ==
    /\ Running
    /\ proc[k] = "dead"
    /\ status[k] # "stopped"
    /\ SupSet(OnExit(SupState, k))

SupNext ==
    \/ BootLoad
    \/ BootNext
    \/ \E kind \in DocKinds : FileChange(kind)
    \/ DebounceFire
    \/ \E r \in Reloads : ReloadRead(r)
    \/ \E k \in Forks : WorkerReady(k)
    \/ \E k \in Forks : WorkerLoadFail(k)
    \/ \E k \in Forks : WorkerStartError(k)
    \/ \E k \in Forks : \E viaError \in BOOLEAN : WorkerCrash(k, viaError)
    \/ \E k \in Forks : StartupTimeout(k)
    \/ \E k \in Forks : ShutdownTimeout(k)
    \/ \E k \in Forks : WorkerShutdown(k)
    \/ \E k \in Forks : WorkerExit(k)

(***************************************************************************)
(* The worker: runtime state.                                              *)
(***************************************************************************)
RouteIds == {1, 2}
UpSlots == 1..3
UpIds(r) == 1..Len(routes[r].upstreams)
Up(r, u) == routes[r].upstreams[u]

\* `upstream.priority || 1`
Priority(up) == IF up.priority = 0 THEN 1 ELSE up.priority
\* `upstream.weight ?? 100`: loadConfig has stored a weight in every upstream.
Weight(up) == up.weight
\* `up.weight || 100`
RetryWeight(up) == IF up.weight = 0 THEN 100 ELSE up.weight

IdleReq == [pc |-> "idle", route |-> 0, healthy |-> <<>>, queue |-> <<>>,
            idx |-> 0, tried |-> <<>>, out |-> -1, resp |-> 0,
            origin |-> "none", path |-> <<>>]

\* initializeRuntimeState: an entry for every route with failover enabled.
HasState(r) == routes[r].failover.enabled /\ Len(routes[r].upstreams) > 0

WkInit ==
    /\ probing \in BOOLEAN
    /\ routes \in Configs
    /\ upstatus = [r \in RouteIds |->
                     IF HasState(r) THEN [u \in UpIds(r) |-> "HEALTHY"] ELSE <<>>]
    /\ probes = [r \in RouteIds |-> [u \in UpIds(r) |-> "none"]]
    /\ failedSince = [r \in RouteIds |-> [u \in UpIds(r) |-> {}]]
    /\ reqs = [q \in Reqs |-> IdleReq]

\* The worker part of a supervisor-only behaviour: one fixed, idle worker.
WkIdle ==
    /\ probing = FALSE
    /\ routes = ConfigA
    /\ upstatus = [r \in RouteIds |->
                     IF HasState(r) THEN [u \in UpIds(r) |-> "HEALTHY"] ELSE <<>>]
    /\ probes = [r \in RouteIds |-> [u \in UpIds(r) |-> "none"]]
    /\ failedSince = [r \in RouteIds |-> [u \in UpIds(r) |-> {}]]
    /\ reqs = [q \in Reqs |-> IdleReq]

(***************************************************************************)
(* Route matching and upstream selection.                                  *)
(***************************************************************************)
\* `url.pathname.startsWith(r.path)`
StartsWith(path, prefix) ==
    /\ Len(prefix) <= Len(path)
    /\ SubSeq(path, 1, Len(prefix)) = prefix

\* `find(config.routes, ...)`: the first matching route, 0 when none.
MatchRoute_Last(path) ==
    LET hits == {r \in RouteIds : StartsWith(path, routes[r].path)}
    IN  IF hits = {} THEN 0 ELSE CHOOSE r \in hits : \A o \in hits : r >= o

MatchRoute(path) ==
    LET hits == {r \in RouteIds : StartsWith(path, routes[r].path)}
    IN  IF hits = {} THEN 0 ELSE CHOOSE r \in hits : \A o \in hits : r <= o

RECURSIVE SumWeights(_, _)
SumWeights(r, us) ==
    IF us = <<>> THEN 0 ELSE Weight(Up(r, Head(us))) + SumWeights(r, Tail(us))

\* selectUpstream(upstreams), for us a sequence of upstreams of route r:
\* the set of upstreams it can return.  The first priority group (lowest
\* value first) whose total weight is not 0 decides: Math.random() * total
\* lands on any member of positive weight, and on the first member when it
\* is 0.  The set is empty when selectUpstream returns undefined.
SelectUpstream(r, us) ==
    LET prios == {Priority(Up(r, us[n])) : n \in 1..Len(us)}
        group(p) == LET in(u) == Priority(Up(r, u)) = p IN SelectSeq(us, in)
        live == {p \in prios : SumWeights(r, group(p)) # 0}
    IN  IF live = {}
        THEN {}
        ELSE LET p == CHOOSE x \in live : \A y \in live : x <= y
                 g == group(p)
             IN  {g[1]} \cup {g[n] : n \in {m \in 1..Len(g) : Weight(Up(r, g[m])) > 0}}

\* The order of sortBy(..., [priority, -weight]): a goes before b.
RetryBefore(r, a, b) ==
    \/ Priority(Up(r, a)) < Priority(Up(r, b))
    \/ /\ Priority(Up(r, a)) = Priority(Up(r, b))
       /\ RetryWeight(Up(r, a)) > RetryWeight(Up(r, b))

\* Stable insertion of u into a sorted sequence.
RECURSIVE InsertSorted(_, _, _)
InsertSorted(r, u, sorted) ==
    IF sorted = <<>> THEN <<u>>
    ELSE IF RetryBefore(r, u, Head(sorted))
         THEN <<u>> \o sorted
         ELSE <<Head(sorted)>> \o InsertSorted(r, u, Tail(sorted))

RECURSIVE SortRetry(_, _)
SortRetry(r, us) ==
    IF us = <<>> THEN <<>>
    ELSE InsertSorted(r, us[Len(us)], SortRetry(r, SubSeq(us, 1, Len(us) - 1)))

\* The retry queue: the healthy upstreams whose target differs from the
\* first-try upstream's, sorted by priority, then by descending weight.
RetryQueue_Unsorted(r, healthy, first) ==
    LET other(u) == Up(r, u).target # Up(r, first).target
    IN  SelectSeq(healthy, other)

RetryQueue_KeepsFirst(r, healthy, first) ==
    SortRetry(r, healthy)

RetryQueue(r, healthy, first) ==
    LET other(u) == Up(r, u).target # Up(r, first).target
    IN  SortRetry(r, SelectSeq(healthy, other))

\* `filter(routeState.upstreams, (up) => up.status === 'HEALTHY')`
HealthyUpstreams_NoFilter(r) ==
    [n \in UpIds(r) |-> n]

HealthyUpstreams(r) ==
    LET ok(u) == upstatus[r][u] = "HEALTHY"
    IN  SelectSeq([n \in UpIds(r) |-> n], ok)

(***************************************************************************)
(* handleRequest.  A request runs from its arrival to the first await of   *)
(* proxyRequest (Arrive), issues the fetch (Forward), resumes on the       *)
(* outcome of the fetch (Response), and is answered (Complete).            *)
(***************************************************************************)
Answer(route, healthy, queue, idx, tried, resp, origin) ==
    [pc |-> "done", route |-> route, healthy |-> healthy, queue |-> queue,
     idx |-> idx, tried |-> tried, out |-> -1, resp |-> resp,
     origin |-> origin, path |-> <<>>]

Attempt(route, healthy, queue) ==
    [pc |-> "prep", route |-> route, healthy |-> healthy, queue |-> queue,
     idx |-> 1, tried |-> <<>>, out |-> -1, resp |-> 0, origin |-> "none",
     path |-> <<>>]

\* The request record req of a request for url.pathname = path.
ForPath(path, req) == [req EXCEPT !.path = path]

\* The unhealthy upstreams of route r for which the request may post a
\* probe.  At most one probe per upstream is in flight.
ProbeCandidates(r) ==
    {u \in UpIds(r) : /\ probing
                      /\ routes[r].healthCheck.enabled
                      /\ upstatus[r][u] = "UNHEALTHY"
                      /\ probes[r][u] = "none"}

\* A request for path arrives in slot q (the lowest free slot).  late is
\* the set of upstreams for which Date.now() - lastFailure exceeds the
\* health-check interval: any amount of time may have passed since the
\* last failure, and posting a probe sets lastFailure to now.
Arrive(q, path, late) ==
    /\ reqs[q].pc = "idle"
    /\ \A o \in Reqs : o < q => reqs[o].pc # "idle"
    /\ UNCHANGED <<supVars, libVars, probing, routes, upstatus, failedSince>>
    /\ LET r == MatchRoute(path) IN
       IF r = 0
       THEN /\ late = {}
            /\ reqs' = [reqs EXCEPT ![q] = ForPath(path,
                          Answer(0, <<>>, <<>>, 0, <<>>, NotFound, "proxy"))]
            /\ UNCHANGED probes
       ELSE IF ~HasState(r)
       THEN LET all == [n \in UpIds(r) |-> n]
                cands == SelectUpstream(r, all)
            IN  /\ late = {}
                /\ UNCHANGED probes
                /\ IF cands = {}
                   THEN reqs' = [reqs EXCEPT ![q] = ForPath(path,
                             Answer(r, all, <<>>, 0, <<>>, InternalError, "proxy"))]
                   ELSE \E first \in cands :
                          reqs' = [reqs EXCEPT ![q] = ForPath(path,
                             Attempt(r, all, <<first>>))]
       ELSE LET healthy == HealthyUpstreams(r)
                cands == SelectUpstream(r, healthy)
            IN  /\ late \subseteq ProbeCandidates(r)
                /\ probes' = [probes EXCEPT ![r] =
                                [u \in UpIds(r) |->
                                   IF u \in late THEN "posted" ELSE @[u]]]
                /\ IF cands = {}
                   THEN reqs' = [reqs EXCEPT ![q] = ForPath(path,
                             Answer(r, healthy, <<>>, 0, <<>>,
                                    ServiceUnavailable, "proxy"))]
                   ELSE \E first \in cands :
                          reqs' = [reqs EXCEPT ![q] = ForPath(path,
                             Attempt(r, healthy,
                                     <<first>> \o RetryQueue(r, healthy, first)))]

\* proxyRequest has built the request and calls fetch for the current
\* candidate of the attempt queue.
Forward(q) ==
    /\ reqs[q].pc = "prep"
    /\ reqs' = [reqs EXCEPT ![q].pc = "fetch",
                            ![q].tried = Append(@, reqs[q].queue[reqs[q].idx])]
    /\ UNCHANGED <<supVars, libVars, probing, routes, upstatus, probes,
                   failedSince>>

\* `route.failover.retryableStatusCodes.includes(response.status)`, or the
\* fetch rejected.
Failed(r, o) ==
    \/ o = TransportError
    \/ o \in routes[r].failover.retryableStatusCodes

\* The catch block of the attempt loop: `upstream.status = 'UNHEALTHY'`.
MarkUnhealthy_Skip(r, u) ==
    upstatus

MarkUnhealthy_ByTarget(r, u) ==
    [upstatus EXCEPT ![r] =
       [w \in UpIds(r) |->
          IF Up(r, w).target = Up(r, u).target THEN "UNHEALTHY" ELSE @[w]]]

MarkUnhealthy(r, u) ==
    [upstatus EXCEPT ![r][u] = "UNHEALTHY"]

\* The fetch of request q settles with outcome o.  Without runtime state
\* a rejected fetch leaves handleRequest as an exception, which the error
\* handler of Bun.serve answers.
Response(q, o) ==
    /\ reqs[q].pc = "fetch"
    /\ UNCHANGED <<supVars, libVars, probing, routes, probes>>
    /\ LET r == reqs[q].route
           u == reqs[q].queue[reqs[q].idx]
       IN  IF ~HasState(r)
           THEN /\ UNCHANGED upstatus
                /\ IF o = TransportError
                   THEN reqs' = [reqs EXCEPT ![q].pc = "done",
                                             ![q].out = o,
                                             ![q].resp = InternalError,
                                             ![q].origin = "proxy"]
                   ELSE reqs' = [reqs EXCEPT ![q].pc = "done",
                                             ![q].out = o,
                                             ![q].resp = o,
                                             ![q].origin = "upstream"]
           ELSE IF ~Failed(r, o)
           THEN /\ UNCHANGED upstatus
                /\ reqs' = [reqs EXCEPT ![q].pc = "done",
                                        ![q].out = o,
                                        ![q].resp = o,
                                        ![q].origin = "upstream"]
           ELSE /\ upstatus' = MarkUnhealthy(r, u)
                /\ IF reqs[q].idx < Len(reqs[q].queue)
                   THEN reqs' = [reqs EXCEPT ![q].pc = "prep",
                                             ![q].out = o,
                                             ![q].idx = @ + 1]
                   ELSE reqs' = [reqs EXCEPT ![q].pc = "done",
                                             ![q].out = o,
                                             ![q].resp = ServiceUnavailable,
                                             ![q].origin = "proxy"]
    /\ failedSince' =
          [r \in RouteIds |-> [u \in UpIds(r) |->
              IF probes[r][u] = "none"
              THEN {}
              ELSE failedSince[r][u] \cup
                   {p \in RouteIds \X UpSlots :
                       /\ HasState(p[1])
                       /\ p[2] \in UpIds(p[1])
                       /\ Up(p[1], p[2]).target = Up(r, u).target
                       /\ upstatus[p[1]][p[2]] = "HEALTHY"
                       /\ upstatus'[p[1]][p[2]] = "UNHEALTHY"}]]

\* The response has been sent; the slot takes the next request.
Complete(q) ==
    /\ reqs[q].pc = "done"
    /\ reqs' = [reqs EXCEPT ![q] = IdleReq]
    /\ UNCHANGED <<supVars, libVars, probing, routes, upstatus, probes,
                   failedSince>>

\* The health checker runs the probe posted for upstream u of route r; the
\* target answers with outcome o.  A recovered message is posted back when
\* the answer is a status that is not retryable.
ProbeRun(r, u, o) ==
    /\ u \in UpIds(r)
    /\ probes[r][u] = "posted"
    /\ probes' = [probes EXCEPT ![r][u] =
                    IF Failed(r, o) THEN "none" ELSE "recovered"]
    /\ failedSince' = [failedSince EXCEPT ![r][u] =
                         IF Failed(r, o) THEN {} ELSE @]
    /\ UNCHANGED <<supVars, libVars, probing, routes, upstatus, reqs>>

\* `find(routeState.upstreams, (up) => up.target === target)`, 0 when none.
FindTarget(r, t) ==
    LET hits == {u \in UpIds(r) : Up(r, u).target = t}
    IN  IF hits = {} THEN 0 ELSE CHOOSE u \in hits : \A w \in hits : u <= w

\* healthChecker.onmessage for {status: 'recovered', target: t}: the first
\* route state whose first upstream of that target is UNHEALTHY gets it
\* flipped; the loop stops there.
OnRecovered(t) ==
    LET hits == {r \in RouteIds : /\ HasState(r)
                                  /\ FindTarget(r, t) # 0
                                  /\ upstatus[r][FindTarget(r, t)] = "UNHEALTHY"}
    IN  IF hits = {}
        THEN upstatus
        ELSE LET r == CHOOSE x \in hits : \A y \in hits : x <= y
             IN  [upstatus EXCEPT ![r][FindTarget(r, t)] = "HEALTHY"]

\* The worker receives the recovered message that the probe for upstream u
\* of route r produced; the message names the target only.
RecoveredMsg(r, u) ==
    /\ u \in UpIds(r)
    /\ probes[r][u] = "recovered"
    /\ probes' = [probes EXCEPT ![r][u] = "none"]
    /\ upstatus' = OnRecovered(Up(r, u).target)
    /\ failedSince' =
          [r2 \in RouteIds |-> [u2 \in UpIds(r2) |->
              IF r2 = r /\ u2 = u
              THEN {}
              ELSE {p \in failedSince[r2][u2] :
                       upstatus'[p[1]][p[2]] = "UNHEALTHY"}]]
    /\ UNCHANGED <<supVars, libVars, probing, routes, reqs>>

WkNext ==
    \/ \E q \in Reqs : \E path \in ReqPaths : \E late \in SUBSET UpSlots :
          Arrive(q, path, late)
    \/ \E q \in Reqs : Forward(q)
    \/ \E q \in Reqs : \E o \in Outcomes : Response(q, o)
    \/ \E q \in Reqs : Complete(q)
    \/ \E r \in RouteIds : \E u \in UpSlots : \E o \in Outcomes : ProbeRun(r, u, o)
    \/ \E r \in RouteIds : \E u \in UpSlots : RecoveredMsg(r, u)

(***************************************************************************)
(* Specifications.                                                         *)
(***************************************************************************)
\* The supervisor with its workers' processes; what happens inside a worker
\* is left out.
InitSupervisor == SupInit /\ WkIdle /\ LibIdle

SpecSupervisor == InitSupervisor /\ [][SupNext]_vars

\* One worker that serves; the supervisor is at rest.
SupAtRest == SupInit /\ workerCount = 1 /\ file.kind = "ok"

InitWorker == SupAtRest /\ WkInit /\ LibIdle

SpecWorker == InitWorker /\ [][WkNext]_vars

\* Every upstream a request for path could post a probe for.
LateAll(path) ==
    LET r == MatchRoute(path)
    IN  IF r # 0 /\ HasState(r) THEN ProbeCandidates(r) ELSE {}

\* The worker under steady load on its health-checked route: requests for
\* the route keep arriving, each long enough after the last failure for
\* every probe to be due, and the targets answer probes with a status that
\* is not retryable.  Requests themselves succeed or fail as they may.
SteadyPath == <<"a", "x">>

InitWorkerSteady == SupAtRest /\ WkInit /\ routes = ConfigA /\ LibIdle

WkSteadyNext ==
    \/ \E q \in Reqs : Arrive(q, SteadyPath, LateAll(SteadyPath))
    \/ \E q \in Reqs : Forward(q)
    \/ \E q \in Reqs : \E o \in Outcomes : Response(q, o)
    \/ \E q \in Reqs : Complete(q)
    \/ \E r \in RouteIds : \E u \in UpSlots : ProbeRun(r, u, Ok)
    \/ \E r \in RouteIds : \E u \in UpSlots : RecoveredMsg(r, u)

\* Every enabled step of the event loop, of the health checker and of the
\* clients is eventually taken.
WkFairness ==
    /\ \A q \in Reqs : WF_vars(Arrive(q, SteadyPath, LateAll(SteadyPath)))
    /\ \A q \in Reqs : WF_vars(Forward(q))
    /\ \A q \in Reqs : WF_vars(\E o \in Outcomes : Response(q, o))
    /\ \A q \in Reqs : WF_vars(Complete(q))
    /\ \A r \in RouteIds : \A u \in UpSlots : WF_vars(ProbeRun(r, u, Ok))
    /\ \A r \in RouteIds : \A u \in UpSlots : WF_vars(RecoveredMsg(r, u))

SpecWorkerFair == InitWorkerSteady /\ [][WkSteadyNext]_vars /\ WkFairness

(***************************************************************************)
(* Properties of the supervisor.                                           *)
(***************************************************************************)
ReadyWorkers == ReadyIn(SupState)

\* Workers whose server is up, whatever the supervisor holds them as.
Serving == {k \in Forks : proc[k] = "serving"}

ReloadActive(r) == rpc[r] \in {"read", "shutwait", "forkwait", "restorewait"}

\* Reload r has sent its first shutdown command and has not ended.
ReloadShutting(r) ==
    /\ rpc[r] \in {"shutwait", "forkwait", "restorewait"}
    /\ \E n \in 1..Len(rcur[r]) : shutdownSent[rcur[r][n]]

\* C1: when a reload, started while workers are ready, reads a document
\* that the config validator (loadConfig) rejects, that reload sends no
\* shutdown, every ready worker stays ready and Master.config is kept.
C1_InvalidReloadTouchesNothing ==
    [][\A r \in Reloads :
          (/\ rpc[r] = "read" /\ rpc'[r] # "read"
           /\ ~LoadConfigOk(file)
           /\ ReadyWorkers # {})
          => /\ shutdownSent' = shutdownSent
             /\ ReadyWorkers' = ReadyWorkers
             /\ config' = config]_supVars

ReplacementFails(r) ==
    /\ rpc[r] = "forkwait"
    /\ resolved[rwait[r]] = "pending"
    /\ resolved'[rwait[r]] = "false"

\* C9: when the replacement of the worker at index i fails to become ready
\* the reload takes its abort path, and on that path (the failing step and
\* every step while it restores missing workers) no worker after index i
\* of the snapshot is sent shutdown and Master.config is not swapped.
C9_FailedReplacementAborts ==
    [][\A r \in Reloads :
          /\ ReplacementFails(r) => rpc'[r] \in {"restorewait", "aborted"}
          /\ (ReplacementFails(r) \/ rpc[r] = "restorewait")
             => /\ config' = config
                /\ \A n \in (ri[r] + 1)..Len(rcur[r]) :
                      shutdownSent'[rcur[r][n]] = shutdownSent[rcur[r][n]]]_supVars

\* C9 witness: a reload over two workers was aborted at its first worker;
\* the second worker was never sent shutdown and still serves, and the
\* supervisor's config is not the document the reload read.
C9_Witness ==
    \E r \in Reloads :
        /\ rpc[r] = "aborted"
        /\ ri[r] = 1
        /\ Len(rcur[r]) = 2
        /\ ~shutdownSent[rcur[r][2]]
        /\ proc[rcur[r][2]] = "serving"
        /\ config # rdoc[r]

\* C10: at most one gracefulReload is in progress, and a debounce timer
\* that fires while one is in progress starts no reload, sends no shutdown
\* and forks no worker.
C10_SingleReload ==
    /\ [](Cardinality({r \in Reloads : ReloadActive(r)}) <= 1)
    /\ [][((\E r \in Reloads : ReloadActive(r)) /\ reloadTimeout /\ ~reloadTimeout')
          => /\ nReloads' = nReloads
             /\ nForks' = nForks
             /\ shutdownSent' = shutdownSent]_supVars

\* C10 witness: config.json changed after the reload in progress had read
\* it, and the debounce timer of that change has already fired.
C10_Witness ==
    \E r \in Reloads :
        /\ rpc[r] \in {"shutwait", "forkwait"}
        /\ file.ver > rdoc[r].ver
        /\ ~reloadTimeout
        /\ nReloads = r

(***************************************************************************)
(* Properties of the worker.                                               *)
(***************************************************************************)
Failover(r) == r # 0 /\ HasState(r)

Current(q) == reqs[q].queue[reqs[q].idx]

StatusIs(r, u, s) == HasState(r) /\ u \in UpIds(r) /\ upstatus[r][u] = s

Elems(s) == {s[n] : n \in 1..Len(s)}

C6_AllUnhealthyAnswers503WithoutFetch ==
    [][\A q \in Reqs :
         (/\ reqs[q].pc = "idle"
          /\ reqs'[q].pc # "idle"
          /\ Failover(reqs'[q].route)
          /\ \A u \in UpIds(reqs'[q].route) :
                upstatus[reqs'[q].route][u] = "UNHEALTHY") =>
           /\ reqs'[q].pc = "done"
           /\ reqs'[q].resp = ServiceUnavailable
           /\ reqs'[q].origin = "proxy"
           /\ reqs'[q].queue = <<>>
           /\ reqs'[q].tried = <<>>]_vars

\* C6 witness: a request on a failover route whose upstreams are all
\* UNHEALTHY has been answered 503 without a fetch.
C6_Witness ==
    \E q \in Reqs :
        /\ reqs[q].pc = "done"
        /\ Failover(reqs[q].route)
        /\ \A u \in UpIds(reqs[q].route) :
              upstatus[reqs[q].route][u] = "UNHEALTHY"
        /\ reqs[q].resp = ServiceUnavailable
        /\ reqs[q].tried = <<>>

\* C7: a request on a matched route, with or without failover, that the
\* proxy answers itself because no upstream attempt succeeded is answered
\* 503.
C7_NoSuccessfulAttemptAnswers503 ==
    \A q \in Reqs :
        (/\ reqs[q].pc = "done"
         /\ reqs[q].route # 0
         /\ reqs[q].origin = "proxy") =>
           reqs[q].resp = ServiceUnavailable

\* C8: on a route with failover and healthCheck enabled an UNHEALTHY
\* upstream is eventually HEALTHY again, when requests keep arriving and
\* probes are answered with a status that is not retryable.
C8_UnhealthyEventuallyHealthy ==
    \A r \in RouteIds : \A u \in UpSlots :
        (routes[r].healthCheck.enabled /\ StatusIs(r, u, "UNHEALTHY"))
        ~> StatusIs(r, u, "HEALTHY")

(***************************************************************************)
(* The supervisor with healthy workers: every document written is valid,   *)
(* every worker starts and stops when told to, no worker dies on its own   *)
(* and no timer of forkWorker or gracefulShutdownWorker expires.           *)
(***************************************************************************)
InitSupervisorSteady == SupInit /\ file.kind = "ok" /\ WkIdle /\ LibIdle

SupSteadyNext ==
    \/ BootLoad
    \/ BootNext
    \/ FileChange("ok")
    \/ DebounceFire
    \/ \E r \in Reloads : ReloadRead(r)
    \/ \E k \in Forks : WorkerReady(k)
    \/ \E k \in Forks : WorkerShutdown(k)
    \/ \E k \in Forks : WorkerExit(k)

\* Every pending task of the supervisor's event loop and of the workers is
\* eventually run; the file is changed when its writer pleases.
SupFairness ==
    /\ WF_vars(BootLoad)
    /\ WF_vars(BootNext)
    /\ WF_vars(DebounceFire)
    /\ \A r \in Reloads : WF_vars(ReloadRead(r))
    /\ \A k \in Forks : WF_vars(WorkerReady(k))
    /\ \A k \in Forks : WF_vars(WorkerShutdown(k))
    /\ \A k \in Forks : WF_vars(WorkerExit(k))

SpecSupervisorFair ==
    InitSupervisorSteady /\ [][SupSteadyNext]_vars /\ SupFairness

\* C11: every change of config.json to a valid document is eventually
\* followed by a change that supersedes it or by a rolling reload that read
\* the document of that change, so that once changes stop a reload has read
\* the latest document.
C11_EveryChangeEventuallyReloaded ==
    \A v \in 1..MaxChanges :
        (file.ver = v) ~> (file.ver # v \/ \E r \in Reloads : rdoc[r].ver = v)

(***************************************************************************)
(* createSseTransformerStream (streaming.ts).  An upstream frame is        *)
(* "data" (a JSON event that is not the last), "last" (a JSON event for    *)
(* which isLastChunk holds) or "done" (data: [DONE]).  On the wire a frame *)
(* is two payload bytes followed by the blank line "\n\n"; the network     *)
(* cuts the byte stream into chunks anywhere.                              *)
(***************************************************************************)
\* Number of frames of an upstream stream.
MaxFrames == 3

FrameKinds == {"data", "last", "done"}

Streams == UNION {[1..n -> FrameKinds] : n \in 1..MaxFrames}

\* Stream rules: per phase 0 when the phase has no rule, 1 when its rule
\* yields one object, 2 when it yields __multi_events with two objects,
\* 3 when it yields the empty object (applyBodyRules' `|| {}`), 4 when it
\* yields an empty __multi_events, 5 when it yields __multi_events with an
\* object and a string.  All 0 is the legacy format.
SseRules(s, c, e) == [start |-> s, chunk |-> c, end |-> e]

SseRuleSets ==
    {SseRules(0, 0, 0), SseRules(1, 1, 1), SseRules(2, 1, 2),
     SseRules(0, 1, 1), SseRules(0, 0, 2), SseRules(1, 1, 0),
     SseRules(0, 3, 0), SseRules(0, 5, 4)}

\* What applyBodyRules returns for a phase, as the kinds of the events in
\* `Array.isArray(transformedData) ? transformedData : [transformedData]`.
RuleResult(code) ==
    CASE code = 0 -> <<"object">>
      [] code = 1 -> <<"object">>
      [] code = 2 -> <<"object", "object">>
      [] code = 3 -> <<"empty">>
      [] code = 4 -> <<>>
      [] code = 5 -> <<"object", "string">>

\* sendEvent, line 66: `event && typeof event === 'object'`
IsWritten(v) == v \in {"object", "empty"}

Newline == [f |-> 0, h |-> 0]

FrameBytes(f) == <<[f |-> f, h |-> 1], [f |-> f, h |-> 2], Newline, Newline>>

RECURSIVE Encode(_)
Encode(n) == IF n = 0 THEN <<>> ELSE Encode(n - 1) \o FrameBytes(n)

\* The bytes of the upstream stream.
Bytes == Encode(Len(sse.frames))

\* isStateMachineRules: `r && (r.start || r.chunk || r.end)`
IsStateMachineRules(r) == r.start # 0 \/ r.chunk # 0 \/ r.end # 0

\* `buffer.indexOf('\n\n')`, 1-based, 0 when there is none.
IndexOfBoundary(buf) ==
    LET hits == {i \in 1..(Len(buf) - 1) : buf[i] = Newline /\ buf[i + 1] = Newline}
    IN  IF hits = {} THEN 0 ELSE CHOOSE i \in hits : \A j \in hits : i <= j

\* String.prototype.trim
RECURSIVE Trim(_)
Trim(s) ==
    IF s = <<>> THEN s
    ELSE IF Head(s) = Newline THEN Trim(Tail(s))
    ELSE IF s[Len(s)] = Newline THEN Trim(SubSeq(s, 1, Len(s) - 1))
    ELSE s

\* The events one rule application yields for frame f in a phase: the
\* object, or the objects of __multi_events, each tagged with the frame,
\* the phase, stream.chunkIndex and its place in the fan-out.
Emission(f, phase, idx, count) ==
    [j \in 1..count |->
       [frame |-> f, phase |-> phase, idx |-> idx, n |-> j, val |-> "object"]]

\* The events sendEvent writes for a rule result, in order.
Written(f, phase, idx, result) ==
    LET w == SelectSeq(result, IsWritten)
    IN  [j \in 1..Len(w) |->
           [frame |-> f, phase |-> phase, idx |-> idx, n |-> j, val |-> w[j]]]

\* sendEvent: without a body rule for the phase the event data passes
\* through as one object.
SendEvent_Prepend(st, f, phase) ==
    [st EXCEPT !.out = Written(f, phase, st.chunkCount,
                               RuleResult(st.rules[phase])) \o @]

SendEvent(st, f, phase) ==
    [st EXCEPT !.out = @ \o Written(f, phase, st.chunkCount,
                                    RuleResult(st.rules[phase]))]

\* transform, lines 103-128: a parsed JSON event, frame f.
ProcessFrame_CountFirst(st, f) ==
    LET isLast == st.frames[f] = "last"
        s1 == IF ~st.hasStarted /\ st.rules.start # 0
              THEN [SendEvent(st, f, "start") EXCEPT !.hasStarted = TRUE]
              ELSE st
        s2 == IF ~isLast /\ (s1.rules.chunk # 0 \/ ~IsStateMachineRules(s1.rules))
              THEN SendEvent([s1 EXCEPT !.chunkCount = @ + 1], f, "chunk")
              ELSE s1
    IN  IF isLast
        THEN [(IF s2.rules.end # 0 THEN SendEvent(s2, f, "end") ELSE s2)
                 EXCEPT !.isFinished = TRUE]
        ELSE s2

ProcessFrame(st, f) ==
    LET isLast == st.frames[f] = "last"
        s1 == IF ~st.hasStarted /\ st.rules.start # 0
              THEN [SendEvent(st, f, "start") EXCEPT !.hasStarted = TRUE]
              ELSE st
        s2 == IF ~isLast /\ (s1.rules.chunk # 0 \/ ~IsStateMachineRules(s1.rules))
              THEN [SendEvent(s1, f, "chunk") EXCEPT !.chunkCount = @ + 1]
              ELSE s1
    IN  IF isLast
        THEN [(IF s2.rules.end # 0 THEN SendEvent(s2, f, "end") ELSE s2)
                 EXCEPT !.isFinished = TRUE]
        ELSE s2

\* transform, lines 94-101: data: [DONE], frame f; transform returns.
ProcessDone(st, f) ==
    [(IF st.rules.end # 0 THEN SendEvent(st, f, "end") ELSE st)
        EXCEPT !.isFinished = TRUE]

\* transform, the while loop over the boundaries in the buffer.
RECURSIVE DrainBuffer(_)
DrainBuffer(st) ==
    LET b == IndexOfBoundary(st.buffer) IN
    IF b = 0 THEN st
    ELSE LET ev == Trim(SubSeq(st.buffer, 1, b - 1))
             s1 == [st EXCEPT !.buffer = SubSeq(@, b + 2, Len(@))]
         IN  IF Len(ev) = 2 /\ ev = SubSeq(FrameBytes(ev[1].f), 1, 2)
             THEN IF st.frames[ev[1].f] = "done"
                  THEN ProcessDone(s1, ev[1].f)
                  ELSE DrainBuffer(ProcessFrame(s1, ev[1].f))
             ELSE DrainBuffer(s1)

\* transform(chunk, controller)
TransformChunk(st, chunk) ==
    IF st.isFinished
    THEN [st EXCEPT !.pos = @ + Len(chunk)]
    ELSE DrainBuffer([st EXCEPT !.pos = @ + Len(chunk),
                                !.buffer = @ \o chunk])

\* flush, lines 160-163: what is left in the buffer is enqueued as it is
\* when the rules are in the legacy format; the bytes are tagged with the
\* frames they belong to.
Leftover(buf) ==
    LET payload(x) == x # Newline /\ x.h = 1
        tag(x) == [frame |-> x.f, phase |-> "raw", idx |-> 0, n |-> 1,
                   val |-> "raw"]
        heads == SelectSeq(buf, payload)
    IN  [i \in 1..Len(heads) |-> tag(heads[i])]

\* flush(controller); the synthesized end event belongs to no frame and is
\* tagged with the index after the last frame.
FlushStream(st) ==
    LET s1 == IF ~st.isFinished /\ st.rules.end # 0
              THEN SendEvent(st, Len(st.frames) + 1, "end")
              ELSE st
        s2 == IF Trim(s1.buffer) # <<>> /\ ~IsStateMachineRules(s1.rules)
              THEN [s1 EXCEPT !.out = @ \o Leftover(s1.buffer)]
              ELSE s1
    IN  [s2 EXCEPT !.flushed = TRUE]

SseInit ==
    sse \in {[NoStream EXCEPT !.frames = fs, !.rules = rl] :
                fs \in Streams, rl \in SseRuleSets}

\* The next m bytes of the upstream arrive as one chunk.
Transform(m) ==
    /\ sse.pos + m <= Len(Bytes)
    /\ sse' = TransformChunk(sse, SubSeq(Bytes, sse.pos + 1, sse.pos + m))
    /\ UNCHANGED <<supVars, wkVars, rq, clock>>

\* The upstream ends.
Flush ==
    /\ sse.pos = Len(Bytes)
    /\ ~sse.flushed
    /\ sse' = FlushStream(sse)
    /\ UNCHANGED <<supVars, wkVars, rq, clock>>

SseNext ==
    \/ \E m \in 1..(4 * MaxFrames) : Transform(m)
    \/ Flush

InitSse ==
    SupAtRest /\ WkIdle /\ rq = NoRequest /\ clock = NoClock /\ SseInit

SpecSse == InitSse /\ [][SseNext]_vars

(***************************************************************************)
(* Properties of the streaming transformer.                                *)
(***************************************************************************)
\* The places in the client stream where an end-phase emission begins.
EndEmissions ==
    {i \in 1..Len(sse.out) : sse.out[i].phase = "end" /\ sse.out[i].n = 1}

\* C12: when end rules are configured, the client stream of a finished
\* upstream stream contains exactly one end-phase emission and nothing
\* after it.
C12_ExactlyOneEndEmissionLast ==
    (sse.flushed /\ sse.rules.end # 0) =>
       /\ Cardinality(EndEmissions) = 1
       /\ \A i \in EndEmissions : \A j \in i..Len(sse.out) :
             /\ sse.out[j].phase = "end"
             /\ sse.out[j].frame = sse.out[i].frame

\* C13: the events of the client stream are in the order of the frames
\* they come from, and the events of one fan-out are next to each other,
\* in their order.
C13_EventsInFrameOrderFanOutContiguous ==
    /\ \A i \in 1..Len(sse.out) : \A j \in i..Len(sse.out) :
          sse.out[i].frame <= sse.out[j].frame
    /\ \A i \in 1..Len(sse.out) :
          LET e == sse.out[i] IN
          /\ e.n > 1 => /\ i > 1
                        /\ sse.out[i - 1] = [e EXCEPT !.n = e.n - 1]
          /\ (e.n = 1 /\ e.phase # "raw" /\ sse.rules[e.phase] = 2) =>
                /\ i < Len(sse.out)
                /\ sse.out[i + 1] = [e EXCEPT !.n = 2]

\* C13 witness: a fan-out of two events is followed by an event of a later
\* frame.
C13_Witness ==
    \E i \in 1..Len(sse.out) :
        /\ sse.out[i].n = 2
        /\ i < Len(sse.out)
        /\ sse.out[i + 1].frame > sse.out[i].frame

\* The stream is n >= 1 frames that are not the last, then the last one.
IsChunksThenLast(frames) ==
    /\ Len(frames) >= 2
    /\ frames[Len(frames)] = "last"
    /\ \A k \in 1..(Len(frames) - 1) : frames[k] = "data"

RECURSIVE ChunkOutputs(_, _)
ChunkOutputs(count, n) ==
    IF n = 0 THEN <<>>
    ELSE ChunkOutputs(count, n - 1) \o Emission(n, "chunk", n - 1, count)

\* stream.chunkIndex matters for the chunk phase only.
PhaseView(out) ==
    [i \in 1..Len(out) |->
       IF out[i].phase = "chunk" THEN out[i] ELSE [out[i] EXCEPT !.idx = 0]]

\* C14: with start, chunk and end rules, n >= 1 frames followed by a last
\* frame produce the start output for frame 1, the chunk output for frame
\* k with chunkIndex k - 1 for k = 1..n, and the end output for the last
\* frame, and nothing else.
C14_StartChunksEnd ==
    (/\ sse.flushed
     /\ sse.rules.start # 0 /\ sse.rules.chunk # 0 /\ sse.rules.end # 0
     /\ IsChunksThenLast(sse.frames)) =>
       LET n == Len(sse.frames) - 1 IN
       PhaseView(sse.out) =
          Emission(1, "start", 0, sse.rules.start)
          \o ChunkOutputs(sse.rules.chunk, n)
          \o Emission(n + 1, "end", 0, sse.rules.end)

\* C14 witness: a finished stream of two frames and a last frame under
\* start, chunk and end rules, cut into more than one chunk.
C14_Witness ==
    /\ sse.flushed
    /\ sse.rules = SseRules(2, 1, 2)
    /\ sse.frames = <<"data", "data", "last">>
    /\ Len(sse.out) = 6

(***************************************************************************)
(* The rule engine: deepMergeRules, applyBodyRules and the header rules of *)
(* proxyRequest (worker.ts).                                               *)
(***************************************************************************)
RuleMaps == {"add", "replace", "default"}

Has(map, key) == map[key].t # "none"

\* `[...new Set(s)]`
RECURSIVE Dedupe(_)
Dedupe(s) ==
    IF s = <<>> THEN <<>>
    ELSE LET r == Dedupe(SubSeq(s, 1, Len(s) - 1))
             x == s[Len(s)]
         IN  IF \E i \in 1..Len(r) : r[i] = x THEN r ELSE Append(r, x)

\* `...srcValue` inside an array literal: the elements of an array, the
\* characters of a string (a string with code c has c characters, written
\* -1..-c); anything else is not iterable.
Spread(v) ==
    IF v.t = "arr" THEN v.a ELSE [i \in 1..v.s |-> 0 - i]

\* The customizer of deepMergeRules, for isArray(objValue).
Customizer(objValue, srcValue) ==
    IF srcValue.t \in {"arr", "str"}
    THEN JArr(Dedupe(objValue.a \o Spread(srcValue)))
    ELSE JTypeError

\* lodash baseMerge / baseMergeDeep for one key of the source, with the
\* customizer: an array destination goes to the customizer, two plain
\* objects are merged field by field, every other source value replaces
\* the destination value.
ReplaceValue(objValue, srcValue) ==
    IF srcValue.t = "none" THEN objValue ELSE srcValue

MergeValue(objValue, srcValue) ==
    IF srcValue.t = "none" THEN objValue
    ELSE IF objValue.t = "arr" THEN Customizer(objValue, srcValue)
    ELSE IF srcValue.t = "obj" /\ objValue.t = "obj"
         THEN JObj(IF srcValue.o.x # 0 THEN srcValue.o.x ELSE objValue.o.x,
                   IF srcValue.o.y # 0 THEN srcValue.o.y ELSE objValue.o.y)
    ELSE srcValue

\* mergeWith for one source: merge source into object.
MergeInto(object, source) ==
    LET m(map) == [key \in Keys |-> MergeValue(object[map][key], source[map][key])]
    IN  IF \/ object.threw
           \/ source.threw
           \/ \E map \in RuleMaps : \E key \in Keys : m(map)[key].t = "throw"
        THEN [EmptySection EXCEPT !.threw = TRUE]
        ELSE [add |-> m("add"), replace |-> m("replace"),
              default |-> m("default"),
              remove |-> IF source.remove = <<>> THEN object.remove
                         ELSE IF object.remove = <<>> THEN source.remove
                         ELSE Dedupe(object.remove \o source.remove),
              threw |-> FALSE]

\* deepMergeRules(base, override) = mergeWith({}, base, override, customizer)
DeepMergeRules(base, override) ==
    MergeInto(MergeInto(EmptySection, base), override)

\* processDynamicValue(value, context) throws.
Throws(value) == value = JBadExpr

\* removeEmptyFields for one field of the body.  In an array null and {}
\* become undefined and are filtered out, '' and [] stay, and the array
\* stays when it is empty; in an object the fields that are null, '' or {}
\* are dropped, [] stays, and the object is dropped when no field is left.
RemoveEmptyFields(value) ==
    CASE value = JEmptyString -> JNone
      [] value.t = "arr" ->
           LET kept(e) == e \notin {NullLeaf, EmptyObjectLeaf}
           IN  JArr(SelectSeq(value.a, kept))
      [] value.t = "obj" ->
           LET dropped(e) == e \in {NullLeaf, EmptyStringLeaf, EmptyObjectLeaf}
               x == IF dropped(value.o.x) THEN 0 ELSE value.o.x
               y == IF dropped(value.o.y) THEN 0 ELSE value.o.y
           IN  IF x = 0 /\ y = 0 THEN JNone ELSE JObj(x, y)
      [] OTHER -> value

\* applyBodyRules(body, rules, context, requestLog)
ApplyBodyRules(body, rules) ==
    LET added ==
            [key \in Keys |->
               IF Has(rules.add, key) /\ ~Throws(rules.add[key])
               THEN rules.add[key] ELSE body[key]]
        replaced ==
            [key \in Keys |->
               IF /\ Has(rules.replace, key)
                  /\ (Has(added, key) \/ Has(rules.add, key))
                  /\ ~Throws(rules.replace[key])
               THEN rules.replace[key] ELSE added[key]]
        defaulted ==
            [key \in Keys |->
               IF /\ Has(rules.default, key)
                  /\ ~Has(replaced, key)
                  /\ ~Throws(rules.default[key])
               THEN rules.default[key] ELSE replaced[key]]
        removed ==
            [key \in Keys |->
               IF /\ \E i \in 1..Len(rules.remove) : rules.remove[i] = key
                  /\ ~Has(rules.add, key)
                  /\ ~Has(rules.replace, key)
               THEN JNone ELSE defaulted[key]]
    IN  [key \in Keys |-> RemoveEmptyFields(removed[key])]

\* String(value) for a header value: a number n is the string with code
\* 10 + n, an object is '[object Object]' (code 2), an array is its
\* elements joined (code 3, the elements kept).
HeaderString(value) ==
    CASE value.t = "num" -> JStr(10 + value.s)
      [] value.t = "obj" -> JStr(2)
      [] value.t = "arr" -> JValue("str", 3, value.a, NoFields)
      [] OTHER -> value

\* proxyRequest, step 6: the header rules.
ApplyHeaderRules(headers, rules) ==
    LET removed ==
            [key \in Keys |->
               IF \E i \in 1..Len(rules.remove) : rules.remove[i] = key
               THEN JNone ELSE headers[key]]
        replaced ==
            [key \in Keys |->
               IF /\ Has(rules.replace, key)
                  /\ Has(removed, key)
                  /\ ~Throws(rules.replace[key])
               THEN HeaderString(rules.replace[key]) ELSE removed[key]]
    IN  [key \in Keys |->
           IF Has(rules.add, key) /\ ~Throws(rules.add[key])
           THEN HeaderString(rules.add[key]) ELSE replaced[key]]

\* The rule sets of the layers of one request.
RuleSet(map, key, value, remove) ==
    [EmptySection EXCEPT ![map][key] = value, !.remove = remove]

RouteRules ==
    {EmptySection, RuleSet("add", "k", JNone, <<"k">>)}
    \cup {RuleSet(map, "k", v, <<>>) :
             map \in RuleMaps, v \in {JNum(1), JObj(1, 0), JArr(<<1>>)}}

UpstreamRules ==
    {EmptySection}
    \cup {[RuleSet(map, "k", v, rm) EXCEPT !.add["j"] = j] :
             map \in RuleMaps,
             v \in {JNum(2), JObj(0, 2), JArr(<<2>>), JBadExpr, JEmptyString},
             rm \in {<<>>, <<"k">>},
             j \in {JNone, JNum(3)}}

TransformerRules ==
    {EmptySection, RuleSet("add", "k", JNone, <<"k">>),
     RuleSet("add", "k", JNum(3), <<>>), RuleSet("add", "k", JObj(0, 3), <<>>),
     RuleSet("add", "k", JArr(<<1, 3>>), <<>>)}

\* The request has the key k or not.
Originals(part) ==
    {EmptyMap,
     [EmptyMap EXCEPT !["k"] = IF part = "headers" THEN JStr(17) ELSE JNum(7)]}

RqInit ==
    rq \in {[NoRequest EXCEPT !.part = p, !.route = r, !.upstream = u,
                              !.transformer = x, !.orig = b, !.pc = "start"] :
               p \in {"headers", "body"}, r \in RouteRules,
               u \in UpstreamRules, x \in TransformerRules,
               b \in Originals("headers") \cup Originals("body")}
    /\ rq.orig \in Originals(rq.part)

\* proxyRequest, step 4: the route and upstream layers are merged.
MergeRouteUpstream ==
    /\ rq.pc = "start"
    /\ LET merged == DeepMergeRules(rq.route, rq.upstream) IN
       rq' = [rq EXCEPT !.merged = merged,
                        !.pc = IF merged.threw THEN "threw" ELSE "merged"]
    /\ UNCHANGED <<supVars, wkVars, sse, clock>>

\* proxyRequest, steps 4 to 8: the body rules of the merged layers, then
\* those of the transformer; the three layers merged for the headers; the
\* header rules; fetch.
ApplyAndForward ==
    /\ rq.pc = "merged"
    /\ LET final == DeepMergeRules(rq.merged, rq.transformer)
           body == ApplyBodyRules(ApplyBodyRules(rq.orig, rq.merged),
                                  rq.transformer)
       IN  rq' = [rq EXCEPT
                    !.final = final,
                    !.pc = IF final.threw THEN "threw" ELSE "forwarded",
                    !.fwd = IF final.threw THEN EmptyMap
                            ELSE IF rq.part = "body" THEN body
                            ELSE ApplyHeaderRules(rq.orig, final)]
    /\ UNCHANGED <<supVars, wkVars, sse, clock>>

\* deepMergeRules applied to the three layers from the right.
Regroup ==
    /\ rq.pc \in {"forwarded", "threw"}
    /\ rq' = [rq EXCEPT
                !.pc = "regrouped",
                !.final = DeepMergeRules(DeepMergeRules(rq.route, rq.upstream),
                                         rq.transformer),
                !.regrouped = DeepMergeRules(rq.route,
                                 DeepMergeRules(rq.upstream, rq.transformer))]
    /\ UNCHANGED <<supVars, wkVars, sse, clock>>

\* proxyRequest, step 9, and prepareResponse for a response that is not a
\* stream: the transformer's response rules (rules.default of the matching
\* response rule, here the transformer layer's rule set) and the upstream's
\* own rules are merged and applied to the JSON body of the response, here
\* the body the upstream echoes.
ResponseRules(transformerDefault, upstreamRules) ==
    DeepMergeRules(transformerDefault, upstreamRules)

PrepareResponse ==
    /\ rq.pc = "forwarded"
    /\ rq.part = "body"
    /\ LET rules == ResponseRules(rq.transformer, rq.upstream) IN
       rq' = [rq EXCEPT
                !.respRules = rules,
                !.pc = IF rules.threw THEN "threw" ELSE "responded",
                !.respBody = IF rules.threw THEN EmptyMap
                             ELSE ApplyBodyRules(rq.orig, rules)]
    /\ UNCHANGED <<supVars, wkVars, sse, clock>>

RqNext ==
    MergeRouteUpstream \/ ApplyAndForward \/ Regroup \/ PrepareResponse

InitRules ==
    SupAtRest /\ WkIdle /\ sse = NoStream /\ clock = NoClock /\ RqInit

SpecRules == InitRules /\ [][RqNext]_vars

(***************************************************************************)
(* Properties of the rule engine.                                          *)
(***************************************************************************)
\* The merge in which the override's value replaces the base's value for
\* every key, and the remove lists are concatenated without duplicates.
OverrideRules(base, override) ==
    LET m(map) == [key \in Keys |->
                     ReplaceValue(base[map][key], override[map][key])]
    IN  [add |-> m("add"), replace |-> m("replace"), default |-> m("default"),
         remove |-> Dedupe(base.remove \o override.remove), threw |-> FALSE]

\* The rules of a section applied to the headers or to the body.
ApplyRules(part, orig, rules) ==
    IF part = "body" THEN ApplyBodyRules(orig, rules)
    ELSE ApplyHeaderRules(orig, rules)

\* Some key is in the same map of the route and of the upstream.
InBothLayers ==
    \E map \in RuleMaps : \E key \in Keys :
        Has(rq.route[map], key) /\ Has(rq.upstream[map], key)

\* C15: when a key is in the same map (add, replace or default) of the
\* route and of the upstream, the request is forwarded with the upstream's
\* value for the key in force: what is forwarded is what the rules give in
\* which the upstream's value has replaced the route's.
C15_UpstreamValueReplacesRouteValue ==
    (/\ InBothLayers
     /\ rq.transformer = EmptySection
     /\ rq.pc \in {"forwarded", "threw"}) =>
       /\ rq.pc = "forwarded"
       /\ rq.fwd = ApplyRules(rq.part, rq.orig,
                              OverrideRules(rq.route, rq.upstream))

\* C16: after one rule set is applied to a header set or to a body, a key
\* listed in remove is absent, except that a key also in add or replace is
\* kept with the added or replaced value (for replace: when the key existed
\* or was added).
C16_RemovedUnlessAddedOrReplaced ==
    (/\ rq.pc = "forwarded"
     /\ rq.route = EmptySection
     /\ rq.transformer = EmptySection) =>
       \A key \in Keys :
          (\E i \in 1..Len(rq.upstream.remove) : rq.upstream.remove[i] = key) =>
             LET rs == rq.upstream
                 v == IF Has(rs.replace, key) THEN rs.replace[key]
                      ELSE rs.add[key]
             IN  IF Has(rs.add, key) \/ Has(rs.replace, key)
                 THEN (/\ ~Throws(v)
                       /\ v # JEmptyString
                       /\ (Has(rs.add, key) \/ Has(rq.orig, key))) =>
                         rq.fwd[key] = IF rq.part = "body" THEN v
                                       ELSE HeaderString(v)
                 ELSE ~Has(rq.fwd, key)

\* C17: deepMergeRules is associative on the rule sets of the three
\* layers.
C17_DeepMergeAssociative ==
    rq.pc = "regrouped" => rq.final = rq.regrouped

\* A rule set without the add, replace and default rules whose expression
\* throws.
WithoutFailing(rules) ==
    [rules EXCEPT
       !.add = [key \in Keys |-> IF Throws(@[key]) THEN JNone ELSE @[key]],
       !.replace = [key \in Keys |-> IF Throws(@[key]) THEN JNone ELSE @[key]],
       !.default = [key \in Keys |-> IF Throws(@[key]) THEN JNone ELSE @[key]]]

HasFailing(rules) ==
    \E map \in RuleMaps : \E key \in Keys : Throws(rules[map][key])

\* C18: when the expression of a rule throws, the request is forwarded
\* with what the rules without that rule give.
C18_FailingRuleAloneHasNoEffect ==
    (rq.pc = "forwarded" /\ HasFailing(rq.merged)) =>
       rq.fwd = IF rq.part = "body"
                THEN ApplyBodyRules(
                        ApplyBodyRules(rq.orig, WithoutFailing(rq.merged)),
                        rq.transformer)
                ELSE ApplyHeaderRules(rq.orig,
                        DeepMergeRules(WithoutFailing(rq.merged),
                                       rq.transformer))

(***************************************************************************)
(* Route matching.                                                         *)
(***************************************************************************)
\* The routes whose path is a prefix of path.
MatchingRoutes(path) ==
    {r \in RouteIds : StartsWith(path, routes[r].path)}

GracefulShutdownWorker(s, k) ==
    IF s.status[k] = "stopped"
    THEN s
    ELSE [s EXCEPT !.status[k] = "shutting_down",
                   !.shutdownSent[k] = TRUE,
                   !.shutTimer[k] = TRUE]

\* shutdownAllWorkers, up to `await Promise.all(shutdownPromises)`: the
\* map callback has run for the first n values of Master.workers.
RECURSIVE ShutdownWorkers(_, _)
ShutdownWorkers(s, n) ==
    IF n = 0 THEN s
    ELSE GracefulShutdownWorker(ShutdownWorkers(s, n - 1), s.workers[n])

ShutdownAllWorkers(s) == ShutdownWorkers(s, Len(s.workers))

\* The handler of SIGINT and SIGTERM: shutdownAllWorkers() is called and
\* not awaited, then process.exit(0).
HandleSignal(s) == [ShutdownAllWorkers(s) EXCEPT !.bpc = "exited"]

\* The supervisor receives SIGINT or SIGTERM.
Signal ==
    /\ Running
    /\ SupSet(HandleSignal(SupState))

SupSignalNext == SupSteadyNext \/ Signal

SpecSupervisorSignal == InitSupervisorSteady /\ [][SupSignalNext]_vars

\* C20: on SIGINT or SIGTERM every worker is sent shutdown, and when the
\* supervisor has exited every worker in Master.workers has exited or was
\* force-terminated.
C20_ExitsAfterWorkers ==
    bpc = "exited" =>
       \A n \in 1..Len(workers) :
          /\ shutdownSent[workers[n]] \/ status[workers[n]] = "stopped"
          /\ proc[workers[n]] = "dead"

(***************************************************************************)
(* The worker's shutdown command.                                          *)
(***************************************************************************)
\* The worker has run shutdownServer.
Stopped == \E q \in Reqs : reqs[q].pc \in {"closed", "aborted"}

\* The requests that are being handled: handleRequest has not returned, or
\* its response is not yet delivered.
InFlight == {q \in Reqs : reqs[q].pc \in {"prep", "fetch", "done"}}

\* shutdownServer(server): server.stop(true) closes the listener and every
\* active connection, the health checker is terminated, process.exit(0).
\* A slot without a request is "closed", a request whose connection was
\* closed before its response is "aborted".
ShutdownServer ==
    /\ ~Stopped
    /\ reqs' = [q \in Reqs |->
                  IF q \in InFlight
                  THEN [reqs[q] EXCEPT !.pc = "aborted"]
                  ELSE [IdleReq EXCEPT !.pc = "closed"]]
    /\ probes' = [r \in RouteIds |-> [u \in UpIds(r) |-> "none"]]
    /\ failedSince' = [r \in RouteIds |-> [u \in UpIds(r) |-> {}]]
    /\ UNCHANGED <<supVars, libVars, probing, routes, upstatus>>

WkShutdownNext == WkSteadyNext \/ ShutdownServer

SpecWorkerShutdown == InitWorkerSteady /\ [][WkShutdownNext]_vars

\* C21: after the shutdown command no request is accepted, and every
\* request in flight at that moment completes: a request leaves the worker
\* only with its response delivered.
C21_InFlightRequestsComplete ==
    [][/\ Stopped => \A q \in Reqs : reqs[q].pc = "idle" => reqs'[q].pc = "idle"
       /\ \A q \in InFlight :
             \/ reqs'[q].pc \in {"prep", "fetch", "done"}
             \/ reqs[q].pc = "done" /\ reqs'[q].pc = "idle"]_vars

(***************************************************************************)
(* Weighted selection.  Math.random() * totalWeight is a point of          *)
(* [0, totalWeight); with whole weights the loop of selectUpstream decides *)
(* the same for every point of an open unit interval (x, x + 1), so a      *)
(* selection is the draw of one of totalWeight equally likely intervals.   *)
(***************************************************************************)
\* The priority group that decides selectUpstream(us): the first group,
\* lowest priority value first, whose total weight is not 0; <<>> when
\* there is none.
TopGroup(r, us) ==
    LET prios == {Priority(Up(r, us[n])) : n \in 1..Len(us)}
        group(p) == LET in(u) == Priority(Up(r, u)) = p IN SelectSeq(us, in)
        live == {p \in prios : SumWeights(r, group(p)) # 0}
    IN  IF live = {} THEN <<>>
        ELSE group(CHOOSE x \in live : \A y \in live : x <= y)

\* The loop `random -= weight; if (random <= 0) return upstream` over the
\* group g, for random in (y, y + 1): 0 when the loop ends without return.
RECURSIVE PickWeighted_Uniform(_, _, _)
PickWeighted_Uniform(r, g, y) ==
    IF g = <<>> THEN 0
    ELSE IF y - 1 < 0 THEN Head(g)
    ELSE PickWeighted_Uniform(r, Tail(g), y - 1)

RECURSIVE PickWeighted(_, _, _)
PickWeighted(r, g, y) ==
    IF g = <<>> THEN 0
    ELSE IF y - Weight(Up(r, Head(g))) < 0 THEN Head(g)
    ELSE PickWeighted(r, Tail(g), y - Weight(Up(r, Head(g))))

\* selectUpstream(us) when Math.random() * totalWeight is in (x, x + 1);
\* 0 when it returns undefined.
SelectAt(r, us, x) ==
    LET g == TopGroup(r, us)
        u == PickWeighted(r, g, x)
    IN  IF g = <<>> THEN 0
        ELSE IF u = 0 THEN g[Len(g)]
        ELSE u

\* One connection at a time: every request is answered before the next
\* arrives, and no probe runs.
WkSingleNext ==
    \/ \E path \in ReqPaths : Arrive(1, path, {})
    \/ Forward(1)
    \/ \E o \in Outcomes : Response(1, o)
    \/ Complete(1)

SpecWorkerSingle == InitWorker /\ [][WkSingleNext]_vars

\* C22: among the HEALTHY upstreams of the deciding priority group, a
\* selection picks upstream i in w_i of the sum-of-weights equally likely
\* draws, and the upstreams it can pick are those the request pipeline
\* tries first.
C22_SelectionProportionalToWeight ==
    \A r \in RouteIds :
        HasState(r) =>
           LET pool == HealthyUpstreams(r)
               g == TopGroup(r, pool)
               total == SumWeights(r, g)
               draws == 0..(total - 1)
           IN  /\ \A n \in 1..Len(g) :
                     Cardinality({x \in draws : SelectAt(r, pool, x) = g[n]})
                        = Weight(Up(r, g[n]))
               /\ {SelectAt(r, pool, x) : x \in draws} = SelectUpstream(r, pool)

\* C22 witness: a request was given its first upstream by a selection
\* among two HEALTHY upstreams of one priority group, and it was given the
\* one of lower weight.
C22_Witness ==
    \E q \in Reqs :
        /\ reqs[q].pc = "prep"
        /\ reqs[q].tried = <<>>
        /\ HasState(reqs[q].route)
        /\ LET g == TopGroup(reqs[q].route, reqs[q].healthy) IN
           /\ Len(g) = 2
           /\ \E n \in 1..2 :
                 /\ reqs[q].queue[1] = g[n]
                 /\ Weight(Up(reqs[q].route, g[n]))
                       < Weight(Up(reqs[q].route, g[3 - n]))

(***************************************************************************)
(* Properties of the rolling reload.                                       *)
(***************************************************************************)
\* The worker slots (ids) that hold no ready worker.
SlotsWithoutReady ==
    {id \in 0..(workerCount - 1) :
        ~\E k \in ReadyWorkers : wid[k] = id}

\* Reload r sends shutdown to the worker at index n of its snapshot only in
\* the step in which the replacement of the worker at index n - 1 reports
\* ready.
ShutdownAfterReplacementReady ==
    [][\A r \in Reloads : \A n \in 2..Len(rcur[r]) :
          (/\ ReloadActive(r)
           /\ ~shutdownSent[rcur[r][n]]
           /\ shutdownSent'[rcur[r][n]]) =>
             /\ rpc[r] = "forkwait"
             /\ wid[rwait[r]] = wid[rcur[r][n - 1]]
             /\ resolved'[rwait[r]] = "true"
             /\ status'[rwait[r]] = "ready"]_vars

ReloadEnds(r) ==
    /\ ReloadActive(r)
    /\ rpc'[r] \in {"done", "aborted"}

\* C24: when a reload ends, completed or aborted, every slot that held a
\* ready worker when the reload began holds a ready worker again (checked
\* for reloads that began with all slots ready and saw no worker die on its
\* own).
C24_SlotsReadyAgainAfterReload ==
    [][\A r \in Reloads :
          (ReloadEnds(r) /\ rready[r] = workerCount /\ crashes' = 0)
          => \A id \in 0..(workerCount - 1) :
                \E k \in Forks :
                    /\ wid'[k] = id
                    /\ status'[k] = "ready" /\ proc'[k] = "serving"]_vars

(***************************************************************************)
(* C25: the debounce of watchConfig with time.  The clock advances in      *)
(* ticks of TickMs; a timer that is due runs before the clock advances and *)
(* before the I/O callbacks of the same loop iteration.  The rest of the   *)
(* supervisor runs as in the steady specification.                         *)
(***************************************************************************)
DebounceMs == 300

TickMs == 100

MaxTime == 6

DebounceTicks == DebounceMs \div TickMs

TimerDue == clock.due # NoTimer /\ clock.due <= clock.now

Tick ==
    /\ clock.now < MaxTime
    /\ ~TimerDue
    /\ clock' = [clock EXCEPT !.now = @ + 1]
    /\ UNCHANGED <<supVars, wkVars, sse, rq>>

\* The callback of fs.watch for a 'change' event: clearTimeout, setTimeout.
WatchChange(kind) ==
    /\ Running
    /\ file.ver < MaxChanges
    /\ ~TimerDue
    /\ SupAssign(FileChanged(kind))
    /\ clock' = [clock EXCEPT !.lastChange = clock.now,
                              !.due = clock.now + DebounceTicks]
    /\ UNCHANGED <<wkVars, sse, rq>>

\* The setTimeout callback of watchConfig.
TimerFires ==
    /\ Running
    /\ reloadTimeout
    /\ TimerDue
    /\ SupAssign(DebounceFired)
    /\ clock' = [clock EXCEPT !.due = NoTimer]
    /\ UNCHANGED <<wkVars, sse, rq>>

DebounceNext ==
    \/ Tick
    \/ WatchChange("ok")
    \/ TimerFires
    \/ BootLoad
    \/ BootNext
    \/ \E r \in Reloads : ReloadRead(r)
    \/ \E k \in Forks : WorkerReady(k)
    \/ \E k \in Forks : WorkerShutdown(k)
    \/ \E k \in Forks : WorkerExit(k)

SpecDebounce == InitSupervisorSteady /\ [][DebounceNext]_vars

\* The pending timer is the one armed by the latest change event; its
\* callback runs once, DebounceMs after that event and not earlier, and a
\* reload is entered by that callback only.
TimerFiresOnceWhenDue ==
    /\ [](reloadTimeout <=> clock.due # NoTimer)
    /\ [](reloadTimeout => /\ clock.due = clock.lastChange + DebounceTicks
                           /\ clock.now <= clock.due)
    /\ [][(reloadTimeout /\ ~reloadTimeout')
          => clock.now = clock.lastChange + DebounceTicks]_vars
    /\ [][nReloads' # nReloads => (reloadTimeout /\ ~reloadTimeout')]_vars

\* C25: a burst of change events less than DebounceMs apart triggers
\* exactly one reload attempt: the timer of the last event of the burst
\* runs once, DebounceMs after that event, and gracefulReload begins then.
C25_BurstStartsOneReload ==
    /\ TimerFiresOnceWhenDue
    /\ [][(reloadTimeout /\ ~reloadTimeout')
          => nReloads' = nReloads + 1]_vars

\* ---------------------------------------------------------------------
\* C26: a request that arrives on a route with runtime state while an
\* upstream of the route is UNHEALTHY gets an attempt queue without that
\* upstream; the queue stays as it is until the request is answered, and
\* every fetch of the request goes to a member of the queue, so the request
\* is never forwarded to that upstream, as first try or as retry.
C26_UnhealthyAtArrivalNeverForwarded ==
    [][\A q \in Reqs :
         /\ (/\ reqs[q].pc = "idle"
             /\ reqs'[q].pc # "idle"
             /\ Failover(reqs'[q].route)) =>
               \A u \in UpIds(reqs'[q].route) :
                  upstatus[reqs'[q].route][u] = "UNHEALTHY" =>
                     /\ u \notin Elems(reqs'[q].queue)
                     /\ u \notin Elems(reqs'[q].tried)
         /\ (reqs[q].pc # "idle" /\ reqs'[q].pc # "idle") =>
               /\ reqs'[q].queue = reqs[q].queue
               /\ Elems(reqs'[q].tried) \subseteq Elems(reqs[q].queue)]_vars

\* C26 witness: a request that arrived while an upstream of its route was
\* UNHEALTHY is being fetched from its second candidate, and that upstream
\* is still UNHEALTHY.
C26_Witness ==
    \E q \in Reqs :
        /\ reqs[q].pc = "fetch"
        /\ Failover(reqs[q].route)
        /\ reqs[q].idx = 2
        /\ \E u \in UpIds(reqs[q].route) :
              /\ u \notin Elems(reqs[q].healthy)
              /\ upstatus[reqs[q].route][u] = "UNHEALTHY"

\* ---------------------------------------------------------------------
\* C27: the effect of a recovered message.

\* The UNHEALTHY runtime upstreams with target t, as <<route, upstream>>.
UnhealthyWithTarget(t) ==
    {p \in RouteIds \X UpSlots :
        /\ HasState(p[1])
        /\ p[2] \in UpIds(p[1])
        /\ Up(p[1], p[2]).target = t
        /\ upstatus[p[1]][p[2]] = "UNHEALTHY"}

\* The first of them in the iteration order of runtimeState and of the
\* route's upstreams.
FirstUnhealthyWithTarget(t) ==
    CHOOSE p \in UnhealthyWithTarget(t) :
        \A o \in UnhealthyWithTarget(t) :
            \/ p[1] < o[1]
            \/ p[1] = o[1] /\ p[2] <= o[2]

\* C27: a recovered message for target T flips to HEALTHY exactly the first
\* UNHEALTHY upstream with target T across all routes and leaves every
\* other status unchanged; when no upstream with target T is UNHEALTHY no
\* status changes.
C27_RecoveredFlipsFirstUnhealthy ==
    [][\A r \in RouteIds : \A u \in UpSlots :
         (/\ u \in UpIds(r)
          /\ probes[r][u] = "recovered"
          /\ probes'[r][u] = "none") =>
            LET t == Up(r, u).target IN
            IF UnhealthyWithTarget(t) = {}
            THEN upstatus' = upstatus
            ELSE LET p == FirstUnhealthyWithTarget(t)
                 IN  upstatus' = [upstatus EXCEPT ![p[1]][p[2]] = "HEALTHY"]]_vars

\* ---------------------------------------------------------------------
\* C28: an upstream is flipped to HEALTHY only by the recovered message of
\* a probe that was posted after the upstream's latest transition to
\* UNHEALTHY; the message of an earlier probe does not revive it.
C28_RevivedOnlyByProbePostedAfterFailure ==
    [][\A r \in RouteIds : \A u \in UpSlots :
         (/\ u \in UpIds(r)
          /\ probes[r][u] = "recovered"
          /\ probes'[r][u] = "none") =>
            \A p \in failedSince[r][u] :
               ~(/\ upstatus[p[1]][p[2]] = "UNHEALTHY"
                 /\ upstatus'[p[1]][p[2]] = "HEALTHY")]_vars

\* ---------------------------------------------------------------------
\* C29: the attempts of one request.

\* What is left of request x: two steps (build, fetch) per candidate from
\* the current one on.
Rank(x) ==
    IF x.pc = "prep" THEN 2 * (Len(x.queue) - x.idx) + 2
    ELSE IF x.pc = "fetch" THEN 2 * (Len(x.queue) - x.idx) + 1
    ELSE 0

\* C29: a request is fetched from each upstream of its route at most once,
\* from upstreams that were HEALTHY when it arrived only and so from at most
\* as many, and from exactly one upstream on a route without runtime state;
\* every step of the request brings it nearer to its response, which it has
\* when no step is left.
C29_BoundedAttemptsThenResponse ==
    /\ [](\A q \in Reqs :
            LET x == reqs[q] IN
            /\ Cardinality(Elems(x.tried)) = Len(x.tried)
            /\ Elems(x.tried) \subseteq Elems(x.healthy)
            /\ Len(x.tried) <= Len(x.healthy)
            /\ (x.route # 0 /\ ~HasState(x.route) /\ x.pc \in {"fetch", "done"})
                  => Len(x.tried) = 1
            /\ x.pc \in {"prep", "fetch"} => x.idx <= Len(x.queue)
            /\ x.pc = "done" => x.resp \in {Ok, ServerError, NotFound,
                                            ServiceUnavailable, InternalError})
    /\ [][\A q \in Reqs :
            (reqs[q].pc \in {"prep", "fetch"} /\ reqs'[q] # reqs[q])
               => Rank(reqs'[q]) < Rank(reqs[q])]_vars

\* C29 witness: a request has been fetched from every upstream that was
\* HEALTHY when it arrived, three of them, and is answered 503.
C29_Witness ==
    \E q \in Reqs :
        /\ reqs[q].pc = "done"
        /\ Len(reqs[q].healthy) = 3
        /\ Len(reqs[q].tried) = 3
        /\ reqs[q].resp = ServiceUnavailable
        /\ reqs[q].origin = "proxy"

\* ---------------------------------------------------------------------
\* C30: what becomes of each data frame in state-machine mode.

\* The frame at which the stream is finished: the first last frame or
\* data: [DONE] (past the end when there is none).
FinishFrame(frames) ==
    LET ends == {k \in 1..Len(frames) : frames[k] \in {"last", "done"}}
    IN  IF ends = {} THEN Len(frames) + 1
        ELSE CHOOSE k \in ends : \A j \in ends : k <= j

\* The JSON frames that transform parses before the stream is finished.
ParsedBeforeFinish(frames) ==
    {f \in 1..Len(frames) : f <= FinishFrame(frames) /\ frames[f] # "done"}

\* The chunk-phase and end-phase emissions for frame f, by their first
\* event.
Transformations(f) ==
    {i \in 1..Len(sse.out) : /\ sse.out[i].frame = f
                             /\ sse.out[i].phase \in {"chunk", "end"}
                             /\ sse.out[i].n = 1}

\* C30: in state-machine mode every JSON frame parsed before the stream is
\* finished is transformed exactly once, by the end rules when it is the
\* last frame and end rules exist and by the chunk rules otherwise; none is
\* dropped without output.
C30_EveryFrameTransformedOnce ==
    (sse.flushed /\ IsStateMachineRules(sse.rules)) =>
       \A f \in ParsedBeforeFinish(sse.frames) :
          /\ Cardinality(Transformations(f)) = 1
          /\ \A i \in Transformations(f) :
                sse.out[i].phase =
                   IF sse.frames[f] = "last" /\ sse.rules.end # 0
                   THEN "end" ELSE "chunk"

\* ---------------------------------------------------------------------
\* C31: the client stream and the chunking of the upstream stream.

\* What the client receives when the whole upstream stream arrives as one
\* chunk.
OneChunkOutput ==
    LET st == [NoStream EXCEPT !.frames = sse.frames, !.rules = sse.rules]
    IN  FlushStream(TransformChunk(st, Bytes)).out

\* C31: the client stream depends on the upstream bytes only and not on
\* how they are cut into chunks: every chunking yields what the single
\* chunk yields.
C31_OutputIndependentOfChunking ==
    sse.flushed => sse.out = OneChunkOutput

\* ---------------------------------------------------------------------
\* C32: the transformer writes an event only for a non-empty JSON object:
\* no event of the client stream that sendEvent wrote is an empty object or
\* a value that is not an object, and a phase whose rule yields an empty
\* __multi_events has no event.
C32_OnlyNonEmptyObjectsWritten ==
    /\ \A i \in 1..Len(sse.out) :
          sse.out[i].phase # "raw" => sse.out[i].val = "object"
    /\ \A i \in 1..Len(sse.out) :
          sse.out[i].phase \in {"start", "chunk", "end"}
             => RuleResult(sse.rules[sse.out[i].phase]) # <<>>

\* ---------------------------------------------------------------------
\* C33: in legacy mode (rules without start, chunk or end) every JSON data
\* frame up to and including the one that satisfies terminal-chunk
\* detection is emitted once after the body rules, and a data: [DONE] frame
\* reaches the client.
C33_LegacyEmitsEveryFrame ==
    (sse.flushed /\ ~IsStateMachineRules(sse.rules)) =>
       \A f \in 1..Len(sse.frames) :
          f <= FinishFrame(sse.frames) =>
             IF sse.frames[f] = "done"
             THEN \E i \in 1..Len(sse.out) : sse.out[i].frame = f
             ELSE Cardinality({i \in 1..Len(sse.out) :
                                  /\ sse.out[i].frame = f
                                  /\ sse.out[i].phase = "chunk"}) = 1

\* ---------------------------------------------------------------------
\* C34: the order of the rule verbs.

\* The rules that were applied to the headers or to the body of the
\* request in one pass.
AppliedInOnePass ==
    IF rq.part = "headers" THEN rq.final ELSE rq.merged

\* C34: the verbs are applied in the order add, replace, default, remove to
\* headers as well as to bodies, so a key that is in both add and replace
\* ends with the replace value.
C34_ReplaceAfterAdd ==
    (/\ rq.pc = "forwarded"
     /\ rq.part = "body" => rq.transformer = EmptySection) =>
       \A key \in Keys :
          (/\ Has(AppliedInOnePass.add, key)
           /\ Has(AppliedInOnePass.replace, key)
           /\ ~Throws(AppliedInOnePass.add[key])
           /\ ~Throws(AppliedInOnePass.replace[key])) =>
             rq.fwd[key] =
                IF rq.part = "headers"
                THEN HeaderString(AppliedInOnePass.replace[key])
                ELSE RemoveEmptyFields(AppliedInOnePass.replace[key])

\* ---------------------------------------------------------------------
\* C35: the rules applied to a response that is not a stream are the
\* upstream's rules merged with the transformer's response rules, and for
\* a key that both layers give in the same rule map the transformer's value
\* is the one applied.
C35_TransformerValueWinsInResponse ==
    rq.pc = "responded" =>
       \A map \in RuleMaps : \A key \in Keys :
          (Has(rq.transformer[map], key) /\ Has(rq.upstream[map], key))
             => rq.respRules[map][key] = rq.transformer[map][key]

(***************************************************************************)
(* C36: removeEmptyFields at depth.  Bodies and rule values with null, '', *)
(* [] and {} inside arrays and objects go through the request pipeline.    *)
(***************************************************************************)
NestedValues ==
    {JArr(<<EmptyStringLeaf>>), JArr(<<NullLeaf, 1>>), JArr(<<NullLeaf>>),
     JArr(<<EmptyArrayLeaf>>), JArr(<<EmptyObjectLeaf, 1>>), JArr(<<>>),
     JObj(NullLeaf, EmptyStringLeaf), JObj(EmptyArrayLeaf, 0),
     JObj(EmptyObjectLeaf, 1), JObj(1, 2)}

InitScrub ==
    /\ SupAtRest /\ WkIdle /\ sse = NoStream /\ clock = NoClock
    /\ rq \in {[NoRequest EXCEPT !.upstream = RuleSet(map, "j", v, <<>>),
                                 !.orig = [EmptyMap EXCEPT !["k"] = b],
                                 !.pc = "start"] :
                  map \in {"add", "default"},
                  v \in {JNone, JEmptyString} \cup NestedValues,
                  b \in {JNone, JNum(7)} \cup NestedValues}

SpecScrub == InitScrub /\ [][RqNext]_vars

Leaves == {NullLeaf, EmptyStringLeaf, EmptyArrayLeaf, EmptyObjectLeaf}

\* The value has no null, '', [] or {} in it and is none of them itself.
Scrubbed(value) ==
    /\ value # JEmptyString
    /\ value.t = "arr" =>
          /\ value.a # <<>>
          /\ \A i \in 1..Len(value.a) : value.a[i] \notin Leaves
    /\ value.t = "obj" =>
          /\ value.o # NoFields
          /\ value.o.x \notin Leaves
          /\ value.o.y \notin Leaves

\* C36: the body returned by rule application contains at no depth a null,
\* an empty string, an empty object or an empty array.
C36_BodyHasNoEmptyValueAtAnyDepth ==
    rq.pc = "forwarded" =>
       \A key \in Keys : Has(rq.fwd, key) => Scrubbed(rq.fwd[key])

(***************************************************************************)
(* The path pipeline of proxyRequest (worker.ts 290-412), one action per   *)
(* stage.  Fields of rq: reqUrl, the path of the request; url,             *)
(* targetUrl.pathname; ctxUrl, context.url.pathname; rewrite, whether      *)
(* route.pathRewrite has the rule v1 -> v2; xfs, the transformer rules,    *)
(* each with path.match (a segment), dyn (whether path.replace is          *)
(* '/m/{{body.k}}' or '/m') and body, its request body rules; active, the  *)
(* index of activeTransformerRule (0 when none); base, whether the         *)
(* upstream's target has a base path; body, the body after the stages so   *)
(* far; evals, for every evaluation of rule expressions the stage, the     *)
(* pathname of the context used and targetUrl.pathname at that moment.     *)
(***************************************************************************)
Url(seg) == [NoUrl EXCEPT !.seg = seg]

\* step 1: the first pathRewrite rule whose pattern matches is applied.
RewritePath(url, rewrite) ==
    IF rewrite /\ url.seg = "v1" THEN [url EXCEPT !.seg = "v2"] ELSE url

\* step 3: `transformerRules.find(rule => new RegExp(rule.path.match).test(currentPath))`
FindTransformerRule(xfs, url) ==
    LET hits == {i \in 1..Len(xfs) : xfs[i].match = url.seg}
    IN  IF hits = {} THEN 0 ELSE CHOOSE i \in hits : \A j \in hits : i <= j

\* step 5a: processDynamicValue(replace, context) and originalPath.replace.
ReplacePath(url, rule, body) ==
    [url EXCEPT !.seg = "m",
                !.arg = IF rule.dyn /\ Has(body, "k") THEN body["k"].s ELSE 0]

\* The body that the context of step 5a holds: intermediateContext.body.
PathExpressionBody_Final(r) ==
    IF r.active # 0 THEN ApplyBodyRules(r.body, r.xfs[r.active].body)
    ELSE r.body

PathExpressionBody(r) == r.body

\* One evaluation of rule expressions.
Eval(r, stage) ==
    Append(r.evals, [stage |-> stage, pathname |-> r.ctxUrl, current |-> r.url])

TransformerChoices ==
    {[match |-> m, dyn |-> d, body |-> b] :
        m \in {"v1", "v2"}, d \in BOOLEAN,
        b \in {EmptySection, RuleSet("add", "k", JNum(3), <<>>)}}

PipelineInit ==
    rq \in {[NoRequest EXCEPT !.pc = "recv", !.reqUrl = Url("v1"),
                              !.url = Url("v1"), !.rewrite = w, !.xfs = x,
                              !.base = b, !.orig = o, !.upstream = u] :
               w \in BOOLEAN, b \in BOOLEAN,
               x \in {<<>>} \cup {<<c>> : c \in TransformerChoices}
                    \cup {<<c, d>> : c \in TransformerChoices,
                                     d \in {[match |-> "v2", dyn |-> FALSE,
                                             body |-> EmptySection]}},
               o \in Originals("body"),
               u \in {EmptySection, RuleSet("add", "k", JNum(2), <<>>)}}

\* step 1
RoutePathRewrite ==
    /\ rq.pc = "recv"
    /\ rq' = [rq EXCEPT !.pc = "rewritten",
                        !.url = RewritePath(rq.url, rq.rewrite)]
    /\ UNCHANGED <<supVars, wkVars, sse, clock>>

\* step 2: buildRequestContext with the rewritten path.
BuildRequestContext ==
    /\ rq.pc = "rewritten"
    /\ rq' = [rq EXCEPT !.pc = "context", !.ctxUrl = rq.url,
                        !.body = rq.orig]
    /\ UNCHANGED <<supVars, wkVars, sse, clock>>

\* step 3
SelectTransformerRule ==
    /\ rq.pc = "context"
    /\ rq' = [rq EXCEPT !.pc = "selected",
                        !.active = FindTransformerRule(rq.xfs, rq.url)]
    /\ UNCHANGED <<supVars, wkVars, sse, clock>>

\* step 4: the body rules of route and upstream.
ApplyOuterBodyRules ==
    /\ rq.pc = "selected"
    /\ LET merged == DeepMergeRules(rq.route, rq.upstream) IN
       rq' = [rq EXCEPT !.pc = "outer",
                        !.merged = merged,
                        !.body = ApplyBodyRules(rq.body, merged),
                        !.evals = Eval(rq, "outer")]
    /\ UNCHANGED <<supVars, wkVars, sse, clock>>

\* step 5a
TransformPath ==
    /\ rq.pc = "outer"
    /\ rq' = IF rq.active = 0
             THEN [rq EXCEPT !.pc = "path"]
             ELSE [rq EXCEPT !.pc = "path",
                             !.url = ReplacePath(rq.url, rq.xfs[rq.active],
                                                 PathExpressionBody(rq)),
                             !.evals = Eval(rq, "path")]
    /\ UNCHANGED <<supVars, wkVars, sse, clock>>

\* step 5b: the transformer's body rules.
ApplyTransformerBodyRules ==
    /\ rq.pc = "path"
    /\ rq' = IF rq.active = 0
             THEN [rq EXCEPT !.pc = "inner"]
             ELSE [rq EXCEPT !.pc = "inner",
                             !.body = ApplyBodyRules(rq.body,
                                                     rq.xfs[rq.active].body),
                             !.evals = Eval(rq, "inner")]
    /\ UNCHANGED <<supVars, wkVars, sse, clock>>

\* line 381 and step 6: the base path is prefixed, then the header rules
\* are evaluated with finalContext = {...context, body: finalBody}.
PrefixAndHeaders ==
    /\ rq.pc = "inner"
    /\ LET r == [rq EXCEPT !.url.base = rq.base] IN
       rq' = [r EXCEPT !.pc = "sent", !.fwd = rq.body,
                       !.evals = Eval(r, "headers")]
    /\ UNCHANGED <<supVars, wkVars, sse, clock>>

PipelineNext ==
    \/ RoutePathRewrite
    \/ BuildRequestContext
    \/ SelectTransformerRule
    \/ ApplyOuterBodyRules
    \/ TransformPath
    \/ ApplyTransformerBodyRules
    \/ PrefixAndHeaders

InitPipeline ==
    SupAtRest /\ WkIdle /\ sse = NoStream /\ clock = NoClock /\ PipelineInit

SpecPipeline == InitPipeline /\ [][PipelineNext]_vars

\* C37: the stages of one request run in the order pathRewrite, selection
\* of the transformer rule against the rewritten path, outer body rules,
\* transformer path replace evaluated against the body the outer rules
\* produced, transformer body rules, prefix of the base path: the request
\* that is sent has the path and the body this order gives, and the path
\* expression never sees the transformer's own body rules.
C37_StagesInOrder ==
    rq.pc = "sent" =>
       LET p1 == RewritePath(rq.reqUrl, rq.rewrite)
           sel == FindTransformerRule(rq.xfs, p1)
           b1 == ApplyBodyRules(rq.orig, DeepMergeRules(rq.route, rq.upstream))
           p2 == IF sel = 0 THEN p1 ELSE ReplacePath(p1, rq.xfs[sel], b1)
           b2 == IF sel = 0 THEN b1 ELSE ApplyBodyRules(b1, rq.xfs[sel].body)
       IN  /\ rq.active = sel
           /\ rq.url = [p2 EXCEPT !.base = rq.base]
           /\ rq.fwd = b2

\* C37 witness: the route rewrote the path, the transformer rule matched
\* the rewritten path, the outer rules set body.k = 2, the path expression
\* put 2 into the path and the transformer's body rules then set k = 3.
C37_Witness ==
    /\ rq.pc = "sent"
    /\ rq.rewrite
    /\ rq.active = 1
    /\ rq.xfs[1].match = "v2"
    /\ rq.url.arg = 2
    /\ rq.fwd["k"] = JNum(3)

\* C38: whenever rule expressions are evaluated, the pathname of the
\* context they are given is the path of the request as the stages run so
\* far have rewritten it (the prefix of the base path left aside).
C38_ContextPathIsCurrent ==
    \A i \in 1..Len(rq.evals) :
        /\ rq.evals[i].pathname.seg = rq.evals[i].current.seg
        /\ rq.evals[i].pathname.arg = rq.evals[i].current.arg

\* C39: every worker the supervisor spawned that is still alive is the
\* entry of the workers Map under its id; the exit of an earlier worker
\* with the same id never removes it.
C39_LiveWorkersRecorded ==
    \A k \in Forks :
        proc[k] \in {"loading", "serving"} =>
            \E n \in 1..Len(workers) : workers[n] = k

(***************************************************************************)
(* The supervisor with every failure of a worker, under the scheduling the *)
(* event loop gives, for one change of config.json: a pending continuation of gracefulReload runs, an     *)
(* armed 30 s timer that nothing clears fires, and the exit event of a     *)
(* thread that has stopped is delivered.  Whether a worker reports ready,  *)
(* obeys a shutdown command or dies is left to the worker.                 *)
(***************************************************************************)
SupervisorTask ==
    \/ \E r \in Reloads : ReloadRead(r)
    \/ \E k \in Forks : StartupTimeout(k)
    \/ \E k \in Forks : ShutdownTimeout(k)
    \/ \E k \in Forks : WorkerExit(k)

ReloadFairness == WF_vars(SupervisorTask)

\* One change of config.json, to any document.
FirstChange(kind) == file.ver = 0 /\ FileChange(kind)

SupOneChangeNext ==
    \/ BootLoad
    \/ BootNext
    \/ \E kind \in DocKinds : FirstChange(kind)
    \/ DebounceFire
    \/ \E r \in Reloads : ReloadRead(r)
    \/ \E k \in Forks : WorkerReady(k)
    \/ \E k \in Forks : WorkerLoadFail(k)
    \/ \E k \in Forks : WorkerStartError(k)
    \/ \E k \in Forks : \E viaError \in BOOLEAN : WorkerCrash(k, viaError)
    \/ \E k \in Forks : StartupTimeout(k)
    \/ \E k \in Forks : ShutdownTimeout(k)
    \/ \E k \in Forks : WorkerShutdown(k)
    \/ \E k \in Forks : WorkerExit(k)

SpecSupervisorTimers ==
    InitSupervisorSteady /\ [][SupOneChangeNext]_vars /\ ReloadFairness

ReloadEventuallyEnds ==
    \A r \in Reloads : ReloadActive(r) ~> (~ReloadActive(r) \/ ~Running)

FlagClearedOnEveryExit ==
    [][\A r \in Reloads :
          (ReloadActive(r) /\ rpc'[r] \in {"done", "rejected", "aborted"})
              => ~isReloading']_vars

FlagOnlyWhileReloading ==
    [](isReloading <=> \E r \in Reloads : ReloadActive(r))

\* C40: every rolling reload that starts eventually ends (as long as the
\* supervisor process runs): a shutdown wait ends with the exit of the
\* worker, forced by the 30 s timer if need be, a startup wait with the
\* worker's report, its exit or the 30 s timer.  When a reload ends, by
\* success, validation failure or an aborted replacement, isReloading is
\* false, and it is true only while a reload runs.
C40_ReloadEndsAndClearsFlag ==
    /\ ReloadEventuallyEnds
    /\ FlagClearedOnEveryExit
    /\ FlagOnlyWhileReloading

\* C40 witness: a reload that shut a worker down and whose replacement
\* failed has ended, and the flag is clear.
C40_Witness ==
    \E r \in Reloads :
        /\ rpc[r] = "aborted"
        /\ ~isReloading
        /\ \E n \in 1..Len(rcur[r]) :
              LET old == rcur[r][n]
              IN  shutdownSent[old] /\ status[old] = "stopped"
====
